---- MODULE Spec2Model ----
(***************************************************************************)
(* A model of the risk classification / scoring engine (utils/scoring.py), *)
(* the per-report severity handlers, the privacy score calculator and the  *)
(* capability-block extractor (utils/pni_scoring.py).                      *)
(*                                                                         *)
(* Python strings are modelled as sequences of one-character strings, so   *)
(* that str.strip() and str.lower() are computed and not assumed.          *)
(***************************************************************************)
EXTENDS Integers, Sequences, FiniteSets, TLC

VARIABLES
    value,      \* map_to_risk: the raw value handed to the classifier
    level,      \* map_to_risk: what it returned
    values,     \* the cells of a dataset, one per row (the primary column)
    columns,    \* the names of the dataset's columns
    out,        \* what the tally / handler returned
    counts,     \* weighted_score: the counts mapping
    weights,    \* weighted_score: the weights mapping
    wscore,     \* weighted_score: what it returned
    profile,    \* calculate_privacy_score: the profile dict
    edited,     \* the fields in which the profile differs from its base profile
    score,      \* calculate_privacy_score: what it returned
    doc,        \* extract_privacy_data: the it-uses blocks, in document order
    data,       \* extract_privacy_data: the profile being filled
    bi,         \* extract_privacy_data: blocks of doc handled so far
    epc,        \* extract_privacy_data: position in the function
    sections,   \* extract_privacy_data: the <section> elements, in document order
    free,       \* extract_privacy_data: the rest of the document
    si,         \* extract_privacy_data: show-ding sections looked at so far
    text_lower, \* extract_privacy_data: the local text_lower
    headings,   \* extract_privacy_data: the <h3> elements outside the sections above
    h3i,        \* extract_privacy_data: <h3> elements handled so far
    apps,       \* scrape_privacy_scores: the available manufacturers, in order
    pni_urls,   \* scrape_privacy_scores: the manufacturers with a configured URL
    results,    \* scrape_privacy_scores: the results dict
    ai,         \* scrape_privacy_scores: manufacturers handled so far
    spc,        \* scrape_privacy_scores: position in the function
    html,       \* scrape_privacy_scores: what fetch_pni_page returned
    requests,   \* the requests sent so far: manufacturer and response, in order
    nentries,   \* a save_* / plot_* call: manufacturers in the mapping or frame
    output_path,\* a save_* / plot_* call: the directory and the file at output_path
    saved,      \* a save_* / plot_* call: how it ended
    summaries,  \* run_subscripts: what collect_permission_summaries finds
    disk,       \* run_subscripts: the file of every artifact
    calls,      \* run_subscripts: the runners that ended, with how they ended
    mi,         \* run_subscripts: entries of SUBSCRIPTS the loop is past
    mpc,        \* run_subscripts: position in the loop or in the permissions generator
    reports     \* generate_permissions_reports: how the call ended

vars == <<value, level, values, columns, out, counts, weights, wscore,
          profile, edited, score, doc, data, bi, epc, sections, free, si, text_lower,
          headings, h3i,
          apps, pni_urls, results, ai, spc, html, requests,
          nentries, output_path, saved,
          summaries, disk, calls, mi, mpc, reports>>

classifyVars == <<value, level>>
tallyVars    == <<values, columns, out>>
weightedVars == <<counts, weights, wscore>>
privacyVars  == <<profile, edited, score>>
extractVars  == <<doc, data, bi, epc, sections, free, si, text_lower, headings, h3i>>
scrapeVars   == <<apps, pni_urls, results, ai, spc, html, requests>>
saveVars     == <<nentries, output_path, saved>>
mainVars     == <<summaries, disk, calls, mi, mpc, reports>>

-----------------------------------------------------------------------------
(* Bounds of the model.                                                    *)

MaxRows == 3      \* cells in a dataset column
MaxCount == 3     \* largest count / weight in a weighted_score mapping
MaxEdits == 2     \* fields in which a scored profile differs from a base profile
MaxBlocks == 2    \* it-uses blocks in a document
MaxSections == 2  \* <section> elements in a document
MaxHeadings == 2  \* <h3> elements outside those sections
MaxApps == 3      \* manufacturer directories that can exist
MaxEntries == 5   \* manufacturers in a mapping or frame handed to a save_* / plot_* call
MaxSummaries == 2 \* manufacturer summaries generate_permissions_reports collects

-----------------------------------------------------------------------------
(* Python strings as character sequences.                                  *)

UpperChars == <<"A","B","C","D","E","F","G","H","I","J","K","L","M",
                "N","O","P","Q","R","S","T","U","V","W","X","Y","Z">>
LowerChars == <<"a","b","c","d","e","f","g","h","i","j","k","l","m",
                "n","o","p","q","r","s","t","u","v","w","x","y","z">>

\* the characters str.strip() removes (ASCII whitespace)
Whitespace == {" ", "\t", "\n", "\r"}

\* the lower-case letter of each upper-case letter
LowerOf ==
    [c \in {UpperChars[i] : i \in 1..26} |->
        LowerChars[CHOOSE i \in 1..26 : UpperChars[i] = c]]

LowerChar(c) == IF c \in DOMAIN LowerOf THEN LowerOf[c] ELSE c

UpperChar(c) ==
    IF \E i \in 1..26 : LowerChars[i] = c
    THEN UpperChars[CHOOSE i \in 1..26 : LowerChars[i] = c]
    ELSE c

\* str.lower()
PyLower(s) == [i \in 1..Len(s) |-> LowerChar(s[i])]

RECURSIVE PyLStrip(_)
PyLStrip(s) ==
    IF s # <<>> /\ Head(s) \in Whitespace THEN PyLStrip(Tail(s)) ELSE s

RECURSIVE PyRStrip(_)
PyRStrip(s) ==
    IF s # <<>> /\ s[Len(s)] \in Whitespace
    THEN PyRStrip(SubSeq(s, 1, Len(s) - 1))
    ELSE s

\* str.strip()
PyStrip(s) == PyRStrip(PyLStrip(s))

\* the words of the severity vocabulary
W_dangerous == <<"d","a","n","g","e","r","o","u","s">>
W_high      == <<"h","i","g","h">>
W_unknown   == <<"u","n","k","n","o","w","n">>
W_medium    == <<"m","e","d","i","u","m">>
W_normal    == <<"n","o","r","m","a","l">>
W_secure    == <<"s","e","c","u","r","e">>
W_info      == <<"i","n","f","o">>
W_warning   == <<"w","a","r","n","i","n","g">>
\* words the table does not hold
W_critical  == <<"c","r","i","t","i","c","a","l">>
W_low       == <<"l","o","w">>
W_hotspot   == <<"h","o","t","s","p","o","t">>
W_good      == <<"g","o","o","d">>
W_highrisk  == <<"h","i","g","h"," ","r","i","s","k">>
W_empty     == <<>>

-----------------------------------------------------------------------------
(* utils/scoring.py                                                        *)

RISK_LEVELS == <<"high", "medium", "normal">>

RISK_WEIGHTS == [l \in {"high", "medium", "normal"} |->
                    CASE l = "high" -> 2 [] l = "medium" -> 1 [] l = "normal" -> 0]

DEFAULT_STATUS_MAPPING ==
    (W_dangerous :> "high") @@ (W_high :> "high") @@ (W_unknown :> "medium") @@
    (W_medium :> "medium") @@ (W_normal :> "normal") @@ (W_secure :> "normal") @@
    (W_info :> "normal") @@ (W_warning :> "medium")

(* A Python object: kind "str" carries its characters, "int" its decimal   *)
(* digits, "bool" the digit 1 or 0; None and float nan carry nothing.      *)
PyValue(k, c) == [kind |-> k, chars |-> c]
PyNone == PyValue("None", <<>>)
PyNaN  == PyValue("nan", <<>>)

\* str(value) for a value that is not a str
PyStr(v) ==
    CASE v.kind = "None" -> <<"N","o","n","e">>
      [] v.kind = "nan"  -> <<"n","a","n">>
      [] v.kind = "bool" -> IF v.chars = <<"1">> THEN <<"T","r","u","e">>
                                                 ELSE <<"F","a","l","s","e">>
      [] OTHER           -> v.chars

normalize_token_nostrip(v) ==
    IF v.kind = "str" THEN PyLower(v.chars) ELSE PyLower(PyStr(v))

normalize_token(v) ==
    IF v.kind = "str"
    THEN PyLower(PyStrip(v.chars))
    ELSE PyLower(PyStrip(PyStr(v)))

\* dict.get(key, default)
DictGet(d, k, default) == IF k \in DOMAIN d THEN d[k] ELSE default

map_to_risk_m(v, mapping, default) == DictGet(mapping, normalize_token(v), default)

map_to_risk(v) == map_to_risk_m(v, DEFAULT_STATUS_MAPPING, "normal")

-----------------------------------------------------------------------------
(* The raw values the classifier is tried on: every word in three          *)
(* capitalisations and four paddings, and values that are not strings.     *)

Words == {W_dangerous, W_high, W_unknown, W_medium, W_normal, W_secure, W_info,
          W_warning, W_critical, W_low, W_hotspot, W_good, W_highrisk, W_empty}

Cases == {"lower", "upper", "title"}
Pads  == {"none", "left", "right", "both"}

Cased(w, c) ==
    CASE c = "lower" -> w
      [] c = "upper" -> [i \in 1..Len(w) |-> UpperChar(w[i])]
      [] c = "title" -> [i \in 1..Len(w) |-> IF i = 1 THEN UpperChar(w[i]) ELSE w[i]]

Padded(s, p) ==
    CASE p = "none"  -> s
      [] p = "left"  -> <<" ">> \o s
      [] p = "right" -> s \o <<" ", "\n">>
      [] p = "both"  -> <<"\t", " ">> \o s \o <<" ">>

Render(w, c, p) == PyValue("str", Padded(Cased(w, c), p))

NonStrings == {PyNone, PyNaN, PyValue("bool", <<"1">>), PyValue("bool", <<"0">>),
               PyValue("int", <<"0">>), PyValue("int", <<"4","2">>)}

RawValues == {Render(w, c, p) : w \in Words, c \in Cases, p \in Pads} \cup NonStrings

-----------------------------------------------------------------------------
(* utils/scoring.py, continued                                             *)

Range(f) == {f[i] : i \in DOMAIN f}

\* counts[level] += 1 on a Counter (a key not yet held starts at 0)
CounterInc(c, k) ==
    [x \in (DOMAIN c) \cup {k} |-> DictGet(c, x, 0) + (IF x = k THEN 1 ELSE 0)]

\* the loop without the `if value is None: continue`
RECURSIVE TallyLoop_countsNone(_, _)
TallyLoop_countsNone(vals, cnt) ==
    IF vals = <<>> THEN cnt
    ELSE TallyLoop_countsNone(Tail(vals), CounterInc(cnt, map_to_risk(Head(vals))))

\* the loop of tally_risks over the values left, with the counts so far
RECURSIVE TallyLoop(_, _)
TallyLoop(vals, cnt) ==
    IF vals = <<>> THEN cnt
    ELSE IF Head(vals).kind = "None"
         THEN TallyLoop(Tail(vals), cnt)
         ELSE TallyLoop(Tail(vals), CounterInc(cnt, map_to_risk(Head(vals))))

tally_risks(vals) == TallyLoop(vals, [l \in Range(RISK_LEVELS) |-> 0])

RECURSIVE SumProducts(_, _, _)
SumProducts(keys, c, w) ==
    IF keys = {} THEN 0
    ELSE LET k == CHOOSE x \in keys : TRUE
         IN  DictGet(c, k, 0) * DictGet(w, k, 0) + SumProducts(keys \ {k}, c, w)

\* weights[level] instead of weights.get(level, 0): -1 stands for the KeyError
weighted_score_keyerror(c, w) ==
    IF (DOMAIN c) \subseteq (DOMAIN w)
    THEN SumProducts((DOMAIN c) \cup (DOMAIN w), c, w)
    ELSE -1

weighted_score(c, w) == SumProducts((DOMAIN c) \cup (DOMAIN w), c, w)

RECURSIVE SumValues(_, _)
SumValues(keys, c) ==
    IF keys = {} THEN 0
    ELSE LET k == CHOOSE x \in keys : TRUE
         IN  c[k] + SumValues(keys \ {k}, c)

\* {**counts, "score": score, "total": sum(counts.values())}
summarize_risks(vals) ==
    LET c == tally_risks(vals)
    IN  ("score" :> weighted_score(c, RISK_WEIGHTS)) @@
        ("total" :> SumValues(DOMAIN c, c)) @@ c

-----------------------------------------------------------------------------
(* The severity handlers of the report modules.                            *)
(*                                                                         *)
(* A dataset has Len(values) rows.  values holds the cells of its SEVERITY *)
(* column; each other severity/status column, when the dataset has it,     *)
(* holds the same cells moved on in CellList by the column's number, so    *)
(* that two columns of one dataset never hold the same series.             *)

CellList == << Render(W_high, "upper", "none"),
               Render(W_dangerous, "lower", "none"),
               Render(W_normal, "title", "none"),
               Render(W_unknown, "lower", "both"),
               Render(W_critical, "lower", "none"),
               PyNone,
               PyNaN >>

Cells == Range(CellList)

ColumnNames == <<"SEVERITY", "severity", "Severity", "STATUS", "status", "Status">>

ColumnNumber(c) == CHOOSE i \in 1..Len(ColumnNames) : ColumnNames[i] = c

ShiftCell(v, k) ==
    LET i == CHOOSE j \in 1..Len(CellList) : CellList[j] = v
    IN  CellList[((i - 1 + k) % Len(CellList)) + 1]

\* dataframe[c]
ColumnCells(vals, c) == [i \in 1..Len(vals) |-> ShiftCell(vals[i], ColumnNumber(c) - 1)]

\* Series.fillna("unknown")
FillNa(v) == IF v.kind \in {"None", "nan"} THEN PyValue("str", W_unknown) ELSE v

\* Series.astype(str)
AsStr(v) == IF v.kind = "str" THEN v.chars ELSE PyStr(v)

\* sev_col.fillna("unknown").astype(str).str.strip().str.lower()
NormalizedSeries(cells) ==
    [i \in 1..Len(cells) |-> PyLower(PyStrip(AsStr(FillNa(cells[i]))))]

\* Series.value_counts().to_dict()
ValueCounts(series) ==
    [t \in Range(series) |-> Cardinality({i \in 1..Len(series) : series[i] = t})]

\* the loop over counts.items() that fills mapped_counts
RECURSIVE MapCounts(_, _, _)
MapCounts(toks, vc, acc) ==
    IF toks = {} THEN acc
    ELSE LET t == CHOOSE x \in toks : TRUE
             l == map_to_risk(PyValue("str", t))
         IN  MapCounts(toks \ {t}, vc, (l :> (DictGet(acc, l, 0) + vc[t])) @@ acc)

\* from the normalisation to the return of a handler
mapped_counts(cells) ==
    LET vc == ValueCounts(NormalizedSeries(cells))
    IN  MapCounts(DOMAIN vc, vc, <<>>)

Returned(m) == [status |-> "ok", result |-> m]
Raised(e)   == [status |-> e, result |-> <<>>]

handle_score_certificate_analysis(cols, vals) ==
    IF "SEVERITY" \notin cols /\ "severity" \notin cols
    THEN Returned("unknown" :> Len(vals))
    ELSE IF "SEVERITY" \in cols
         THEN Returned(mapped_counts(ColumnCells(vals, "SEVERITY")))
         ELSE Returned(mapped_counts(ColumnCells(vals, "severity")))

handle_score_network_security(cols, vals) ==
    IF "SEVERITY" \notin cols /\ "severity" \notin cols
    THEN Returned("unknown" :> Len(vals))
    ELSE IF "SEVERITY" \in cols
         THEN Returned(mapped_counts(ColumnCells(vals, "SEVERITY")))
         ELSE Returned(mapped_counts(ColumnCells(vals, "severity")))

\* sev_col is bound only under "SEVERITY" in dataframe.columns
handle_score_manifest_analysis(cols, vals) ==
    IF "SEVERITY" \notin cols /\ "severity" \notin cols
    THEN Returned("unknown" :> Len(vals))
    ELSE IF "SEVERITY" \in cols
         THEN Returned(mapped_counts(ColumnCells(vals, "SEVERITY")))
         ELSE Raised("UnboundLocalError")

\* save_*_summary_csv: the row written for one manufacturer's count mapping
summary_row(sevmap) ==
    LET high   == DictGet(sevmap, "high", 0)
        medium == DictGet(sevmap, "medium", 0)
        normal == DictGet(sevmap, "normal", 0)
    IN  [high |-> high, medium |-> medium, normal |-> normal,
         total |-> high + medium + normal,
         score |-> weighted_score([l \in {"high", "medium", "normal"} |->
                                      CASE l = "high" -> high
                                        [] l = "medium" -> medium
                                        [] l = "normal" -> normal],
                                  RISK_WEIGHTS)]

\* utils/application_permissions.py
COLUMN_CANDIDATES == <<"STATUS", "status", "Status", "SEVERITY", "severity", "Severity">>

\* the first name of the tuple cands, from position i, that is a column
RECURSIVE FirstPresent(_, _, _)
FirstPresent(cands, cols, i) ==
    IF i > Len(cands) THEN "None"
    ELSE IF cands[i] \in cols THEN cands[i]
    ELSE FirstPresent(cands, cols, i + 1)

find_status_column(cols) == FirstPresent(COLUMN_CANDIDATES, cols, 1)

ReturnedNone == [status |-> "None", result |-> <<>>]

\* the summary dict, without its manufacturer name
summarize_manufacturer(cols, vals) ==
    LET column == find_status_column(cols)
    IN  IF column = "None" THEN ReturnedNone
        ELSE LET summary == summarize_risks(ColumnCells(vals, column))
             IN  Returned([high |-> DictGet(summary, "high", 0),
                           medium |-> DictGet(summary, "medium", 0),
                           normal |-> DictGet(summary, "normal", 0),
                           total_permissions |-> DictGet(summary, "total", 0),
                           score |-> DictGet(summary, "score", 0)])

\* the list collected over one manufacturer whose CSV file holds the dataset
collect_permission_summaries(cols, vals) ==
    LET summary == summarize_manufacturer(cols, vals)
    IN  IF summary.status = "None" THEN <<>> ELSE <<summary.result>>

-----------------------------------------------------------------------------
(* utils/pni_scoring.py: calculate_privacy_score                           *)
(*                                                                         *)
(* A profile is a dict: a function from the field names it holds to Python *)
(* values, written "True", "False", "None" or the string itself.           *)

\* data.get(key): None for a key the dict does not hold
Get(d, k) == DictGet(d, k, "None")

\* the truth value Python gives a value in `if`
Truthy(v) == v \notin {"False", "None", ""}

Min(a, b) == IF a < b THEN a ELSE b
Max(a, b) == IF a > b THEN a ELSE b

\* camera_app tested with `not` instead of `== False`
data_collection_notNone(d) ==
    Min( (IF Get(d, "camera_device") = "False" THEN 3 ELSE 0)
       + (IF ~Truthy(Get(d, "camera_app")) THEN 3 ELSE 0)
       + (IF Get(d, "microphone_device") = "False" THEN 3 ELSE 0)
       + (IF Get(d, "microphone_app") = "False" THEN 3 ELSE 0)
       + (IF Get(d, "tracks_location_device") = "False" THEN 4 ELSE 0)
       + (IF Get(d, "tracks_location_app") = "False" THEN 4 ELSE 0)
       + (IF ~Truthy(Get(d, "collects_biometrics")) THEN 5 ELSE 0), 25)

data_collection(d) ==
    Min( (IF Get(d, "camera_device") = "False" THEN 3 ELSE 0)
       + (IF Get(d, "camera_app") = "False" THEN 3 ELSE 0)
       + (IF Get(d, "microphone_device") = "False" THEN 3 ELSE 0)
       + (IF Get(d, "microphone_app") = "False" THEN 3 ELSE 0)
       + (IF Get(d, "tracks_location_device") = "False" THEN 4 ELSE 0)
       + (IF Get(d, "tracks_location_app") = "False" THEN 4 ELSE 0)
       + (IF ~Truthy(Get(d, "collects_biometrics")) THEN 5 ELSE 0), 25)

data_usage(d) ==
    Min( (IF ~Truthy(Get(d, "sells_data")) THEN 10 ELSE 0)
       + (IF ~Truthy(Get(d, "shares_for_marketing")) THEN 8 ELSE 0)
       + (IF ~Truthy(Get(d, "targeted_advertising")) THEN 7 ELSE 0), 25)

user_control(d) ==
    LET deletion == DictGet(d, "data_deletion_available", "unclear")
    IN  Min( (CASE deletion = "all" -> 10
                [] deletion = "some_regions" -> 5
                [] deletion = "unclear" -> 2
                [] OTHER -> 0)
           + (IF Truthy(Get(d, "opt_out_available")) THEN 5 ELSE 0)
           + (IF Truthy(Get(d, "user_friendly_privacy_info")) THEN 5 ELSE 0), 20)

\* security_status read without its default "unknown"
security_noDefault(d) ==
    LET status == Get(d, "security_status")
    IN  Min( (IF ~Truthy(Get(d, "known_breaches")) THEN 12
              ELSE IF Get(d, "breach_severity") = "minor" THEN 6 ELSE 0)
           + (CASE status = "good" -> 8
                [] status = "unknown" -> 4
                [] OTHER -> 0), 20)

security(d) ==
    LET status == DictGet(d, "security_status", "unknown")
    IN  Min( (IF ~Truthy(Get(d, "known_breaches")) THEN 12
              ELSE IF Get(d, "breach_severity") = "minor" THEN 6 ELSE 0)
           + (CASE status = "good" -> 8
                [] status = "unknown" -> 4
                [] OTHER -> 0), 20)

\* an offline bonus that fills the cap of 10
transparency_full(d) ==
    Min( (IF Truthy(Get(d, "can_use_offline")) THEN 7 ELSE 0)
       + (IF Truthy(Get(d, "user_friendly_privacy_info")) THEN 3 ELSE 0), 10)

\* the offline bonus alone
transparency_noFlag(d) ==
    Min( (IF Truthy(Get(d, "can_use_offline")) THEN 3 ELSE 0), 10)

transparency(d) ==
    Min( (IF Truthy(Get(d, "can_use_offline")) THEN 3 ELSE 0)
       + (IF Truthy(Get(d, "user_friendly_privacy_info")) THEN 3 ELSE 0), 10)

\* the sum that leaves the last category out
privacy_total_short(dc, du, uc, sec, tr) == Max(0, Min(100, dc + du + uc + sec))

\* score["total"]: the sum of the five sub-scores, then max(0, min(100, .))
privacy_total(dc, du, uc, sec, tr) == Max(0, Min(100, dc + du + uc + sec + tr))

grades == << <<80, "A", "Privacy Friendly">>, <<60, "B", "Acceptable">>,
             <<40, "C", "Caution Advised">>, <<20, "D", "Privacy Concerns">>,
             <<0, "F", "Privacy Not Included">> >>

\* the for loop over grades from entry i: the first threshold total reaches
RECURSIVE GradeLoop(_, _)
GradeLoop(total, i) ==
    IF i > Len(grades)
    THEN [grade |-> "F", label |-> "Privacy Not Included"]
    ELSE IF total >= grades[i][1]
         THEN [grade |-> grades[i][2], label |-> grades[i][3]]
         ELSE GradeLoop(total, i + 1)

\* `>` where the code has `>=`
RECURSIVE GradeLoopStrict(_, _)
GradeLoopStrict(total, i) ==
    IF i > Len(grades)
    THEN [grade |-> "F", label |-> "Privacy Not Included"]
    ELSE IF total > grades[i][1]
         THEN [grade |-> grades[i][2], label |-> grades[i][3]]
         ELSE GradeLoopStrict(total, i + 1)

grade_strict(total) == GradeLoopStrict(total, 1)

grade_of(total) == GradeLoop(total, 1)

calculate_privacy_score(d) ==
    LET dc  == data_collection(d)
        du  == data_usage(d)
        uc  == user_control(d)
        sec == security(d)
        tr  == transparency(d)
        total == privacy_total(dc, du, uc, sec, tr)
        g == grade_of(total)
    IN  [total |-> total, grade |-> g.grade, label |-> g.label,
         data_collection |-> dc, data_usage |-> du, user_control |-> uc,
         security |-> sec, transparency |-> tr]

-----------------------------------------------------------------------------
(* Idle values of the variables a specification does not use.              *)

ClassifyIdle == value = PyNone /\ level = "idle"
TallyIdle    == values = <<>> /\ columns = {} /\ out = [op |-> "idle"]
WeightedIdle == counts = <<>> /\ weights = <<>> /\ wscore = [op |-> "idle"]
PrivacyIdle  == profile = <<>> /\ edited = {} /\ score = [op |-> "idle"]
ExtractIdle  ==
    /\ doc = <<>> /\ data = <<>> /\ bi = 0 /\ epc = "idle"
    /\ sections = <<>> /\ free = [text |-> <<>>, band |-> FALSE] /\ si = 0
    /\ text_lower = <<>> /\ headings = <<>> /\ h3i = 0
ScrapeIdle   ==
    /\ apps = <<>> /\ pni_urls = {} /\ results = <<>> /\ ai = 0 /\ spc = "idle"
    /\ html = [kind |-> "None"] /\ requests = <<>>
SaveIdle     ==
    /\ nentries = 0 /\ output_path = [parent |-> FALSE, file |-> "absent"]
    /\ saved = [op |-> "idle"]
MainIdle     ==
    /\ summaries = <<>> /\ disk = <<>> /\ calls = <<>> /\ mi = 0 /\ mpc = "idle"
    /\ reports = [op |-> "idle"]

-----------------------------------------------------------------------------
(* SpecClassify: map_to_risk applied to one raw value.                     *)

InitClassify ==
    /\ value \in RawValues
    /\ level = "pending"
    /\ TallyIdle /\ WeightedIdle /\ PrivacyIdle /\ ExtractIdle /\ ScrapeIdle /\ SaveIdle /\ MainIdle

MapToRisk ==
    /\ level = "pending"
    /\ level' = map_to_risk(value)
    /\ UNCHANGED <<value, tallyVars, weightedVars, privacyVars, extractVars, scrapeVars, saveVars, mainVars>>

NextClassify == MapToRisk

SpecClassify == InitClassify /\ [][NextClassify]_vars

\* the table of the claim, on the trimmed lowercased token
CanonicalLevel(w) ==
    CASE w \in {W_dangerous, W_high} -> "high"
      [] w \in {W_warning, W_unknown, W_medium} -> "medium"
      [] w \in {W_normal, W_secure, W_info} -> "normal"
      [] OTHER -> "normal"

LevelWord(l) ==
    CASE l = "high" -> W_high [] l = "medium" -> W_medium [] l = "normal" -> W_normal

\* C1: map_to_risk returns, for every rendering (case, padding) of a word, the
\* level the canonical table gives for the word, "normal" for a word or a
\* non-string value the table does not hold, and always one of the three levels
\* (it never fails); high, medium and normal map to themselves.
C1_MapToRiskCanonical ==
    level # "pending" =>
        /\ level \in {"high", "medium", "normal"}
        /\ \A w \in Words, c \in Cases, p \in Pads :
              value = Render(w, c, p) => level = CanonicalLevel(w)
        /\ value \in NonStrings => level = "normal"
        /\ \A l \in {"high", "medium", "normal"} :
              value = PyValue("str", LevelWord(l)) => level = l

C1_Witness ==
    /\ value = Render(W_dangerous, "upper", "both")
    /\ level = "high"

-----------------------------------------------------------------------------
(* SpecTally: one call of tally_risks, summarize_risks or a severity       *)
(* handler on a dataset.                                                   *)

RECURSIVE SeqsUpTo(_, _)
SeqsUpTo(S, n) ==
    IF n = 0 THEN {<<>>}
    ELSE LET shorter == SeqsUpTo(S, n - 1)
         IN  shorter \cup {Append(q, x) : q \in shorter, x \in S}

ColumnSets == { {}, {"SEVERITY"}, {"severity"}, {"SEVERITY", "severity"},
                {"Severity"}, {"STATUS"}, {"status", "severity"},
                {"Status", "STATUS", "SEVERITY"} }

InitTally ==
    /\ values \in SeqsUpTo(Cells, MaxRows)
    /\ columns \in ColumnSets
    /\ out = [op |-> "pending"]
    /\ ClassifyIdle /\ WeightedIdle /\ PrivacyIdle /\ ExtractIdle /\ ScrapeIdle /\ SaveIdle /\ MainIdle

\* what a call leaves in out
Outcome(op, r) == [op |-> op, status |-> r.status, result |-> r.result]

tallyRest == <<values, columns, classifyVars, weightedVars, privacyVars, extractVars, scrapeVars, saveVars, mainVars>>

TallyRisks ==
    /\ out.op = "pending"
    /\ out' = Outcome("tally_risks", Returned(tally_risks(values)))
    /\ UNCHANGED tallyRest

SummarizeRisks ==
    /\ out.op = "pending"
    /\ out' = Outcome("summarize_risks", Returned(summarize_risks(values)))
    /\ UNCHANGED tallyRest

HandleScoreCertificate ==
    /\ out.op = "pending"
    /\ out' = Outcome("handle_score_certificate_analysis",
                      handle_score_certificate_analysis(columns, values))
    /\ UNCHANGED tallyRest

HandleScoreNetwork ==
    /\ out.op = "pending"
    /\ out' = Outcome("handle_score_network_security",
                      handle_score_network_security(columns, values))
    /\ UNCHANGED tallyRest

HandleScoreManifest ==
    /\ out.op = "pending"
    /\ out' = Outcome("handle_score_manifest_analysis",
                      handle_score_manifest_analysis(columns, values))
    /\ UNCHANGED tallyRest

\* load_certificate_counts, then the row save_certificate_summary_csv writes
SaveCertificateSummary ==
    /\ out.op = "pending"
    /\ out' = LET h == handle_score_certificate_analysis(columns, values)
              IN  Outcome("save_certificate_summary_csv",
                          IF h.status = "ok" THEN Returned(summary_row(h.result)) ELSE h)
    /\ UNCHANGED tallyRest

SaveNetworkSummary ==
    /\ out.op = "pending"
    /\ out' = LET h == handle_score_network_security(columns, values)
              IN  Outcome("save_network_summary_csv",
                          IF h.status = "ok" THEN Returned(summary_row(h.result)) ELSE h)
    /\ UNCHANGED tallyRest

SaveManifestSummary ==
    /\ out.op = "pending"
    /\ out' = LET h == handle_score_manifest_analysis(columns, values)
              IN  Outcome("save_manifest_summary_csv",
                          IF h.status = "ok" THEN Returned(summary_row(h.result)) ELSE h)
    /\ UNCHANGED tallyRest

CollectPermissionSummaries ==
    /\ out.op = "pending"
    /\ out' = Outcome("collect_permission_summaries",
                      Returned(collect_permission_summaries(columns, values)))
    /\ UNCHANGED tallyRest

NextTally ==
    \/ TallyRisks
    \/ SummarizeRisks
    \/ HandleScoreCertificate
    \/ HandleScoreNetwork
    \/ HandleScoreManifest
    \/ SaveCertificateSummary
    \/ SaveNetworkSummary
    \/ SaveManifestSummary
    \/ CollectPermissionSummaries

SpecTally == InitTally /\ [][NextTally]_vars

\* the values of a sequence that are not None and that map_to_risk puts in a level
Classified(vals, l) ==
    {i \in 1..Len(vals) : vals[i].kind # "None" /\ map_to_risk(vals[i]) = l}

NonNone(vals) == {i \in 1..Len(vals) : vals[i].kind # "None"}

\* C2: summarize_risks returns exactly the keys high, medium, normal, score and
\* total; each level holds the number of non-None values classified to it, total
\* the number of non-None values (the sum of the three), score 2*high + medium,
\* which is >= 0; with no findings all five are 0.
C2_SummarizeRisks ==
    out.op = "summarize_risks" =>
        LET r == out.result IN
        /\ out.status = "ok"
        /\ DOMAIN r = {"high", "medium", "normal", "score", "total"}
        /\ \A l \in {"high", "medium", "normal"} :
              r[l] = Cardinality(Classified(values, l))
        /\ r["total"] = Cardinality(NonNone(values))
        /\ r["total"] = r["high"] + r["medium"] + r["normal"]
        /\ r["score"] = 2 * r["high"] + 1 * r["medium"]
        /\ r["score"] >= 0
        /\ NonNone(values) = {} =>
              r = [k \in {"high", "medium", "normal", "score", "total"} |-> 0]

C2_Witness ==
    /\ out.op = "summarize_risks"
    /\ values = <<CellList[1], PyNone, CellList[4]>>
    /\ out.result["high"] = 1 /\ out.result["medium"] = 1
    /\ out.result["total"] = 2 /\ out.result["score"] = 3

CountOps == {"tally_risks", "handle_score_certificate_analysis",
             "handle_score_network_security", "handle_score_manifest_analysis"}

\* C3: every count mapping returned for a dataset that has a severity column, by
\* tally_risks or by a handle_score_* handler, holds the three keys high, medium
\* and normal (0 for a level without findings).
C3_AllLevelsPresent ==
    (/\ out.op \in CountOps
     /\ out.status = "ok"
     /\ ("SEVERITY" \in columns \/ "severity" \in columns))
    => {"high", "medium", "normal"} \subseteq DOMAIN out.result

-----------------------------------------------------------------------------
(* SpecWeighted: weighted_score applied to a counts and a weights mapping. *)

LevelKeys == {"high", "medium", "normal", "unknown"}

\* every mapping from some of the keys to 0..MaxCount
CountMappings == UNION {[K -> 0..MaxCount] : K \in SUBSET LevelKeys}

\* the default weights, and every mapping that gives some of the keys one weight
WeightMappings ==
    {RISK_WEIGHTS} \cup {[k \in K |-> n] : K \in SUBSET LevelKeys, n \in 0..MaxCount}

InitWeighted ==
    /\ counts \in CountMappings
    /\ weights \in WeightMappings
    /\ wscore = [op |-> "pending"]
    /\ ClassifyIdle /\ TallyIdle /\ PrivacyIdle /\ ExtractIdle /\ ScrapeIdle /\ SaveIdle /\ MainIdle

WeightedScore ==
    /\ wscore.op = "pending"
    /\ wscore' = [op |-> "weighted_score", value |-> weighted_score(counts, weights)]
    /\ UNCHANGED <<counts, weights, classifyVars, tallyVars, privacyVars, extractVars, scrapeVars, saveVars, mainVars>>

NextWeighted == WeightedScore

SpecWeighted == InitWeighted /\ [][NextWeighted]_vars

\* counts[k] * weights[k] for a key both mappings hold, 0 for any other key
Term(k) ==
    IF k \in DOMAIN counts /\ k \in DOMAIN weights THEN counts[k] * weights[k] ELSE 0

\* C4: weighted_score returns the sum of counts[level] * weights[level] with a
\* key missing on either side counted as 0, and never fails for a level without
\* a weight: {unknown: n} scores 0 under the default weights and
\* {high: 2, medium: 3, normal: 1} scores 7.
C4_WeightedScore ==
    wscore.op = "weighted_score" =>
        /\ wscore.value = Term("high") + Term("medium") + Term("normal") + Term("unknown")
        /\ wscore.value >= 0
        /\ (weights = RISK_WEIGHTS /\ DOMAIN counts = {"unknown"}) => wscore.value = 0
        /\ (weights = RISK_WEIGHTS /\ DOMAIN counts = {"high", "medium", "normal"}
              /\ counts["high"] = 2 /\ counts["medium"] = 3 /\ counts["normal"] = 1)
           => wscore.value = 7

C4_Witness ==
    /\ wscore.op = "weighted_score"
    /\ weights = RISK_WEIGHTS
    /\ DOMAIN counts = {"high", "unknown"}
    /\ counts["high"] = 2 /\ counts["unknown"] = 3
    /\ wscore.value = 4

-----------------------------------------------------------------------------
(* SpecPrivacy: calculate_privacy_score applied to a profile that differs  *)
(* from a base profile in at most MaxEdits fields.                         *)

TriFields == {"camera_device", "camera_app", "microphone_device", "microphone_app",
              "tracks_location_device", "tracks_location_app"}

FlagFields == {"collects_biometrics", "sells_data", "shares_for_marketing",
               "targeted_advertising", "opt_out_available", "known_breaches"}

ScoredFields == TriFields \cup FlagFields \cup
    {"user_friendly_privacy_info", "can_use_offline", "data_deletion_available",
     "security_status", "breach_severity"}

\* the values a field takes; "Missing" stands for a dict without the key
FieldValues(f) ==
    CASE f \in TriFields -> {"True", "False", "None", "Missing"}
      [] f \in FlagFields -> {"True", "False", "Missing"}
      [] f \in {"user_friendly_privacy_info", "can_use_offline"} ->
            {"True", "False", "None", "Missing"}
      [] f = "data_deletion_available" ->
            {"all", "some_regions", "unclear", "no", "None", "Missing"}
      [] f = "security_status" -> {"good", "warning", "unknown", "None", "Missing"}
      [] f = "breach_severity" -> {"none", "minor", "significant", "Missing"}

\* the scored fields of the dict extract_privacy_data starts from
DefaultProfile ==
    [f \in ScoredFields |->
        CASE f \in TriFields -> "None"
          [] f \in FlagFields -> "False"
          [] f \in {"user_friendly_privacy_info", "can_use_offline"} -> "None"
          [] f = "data_deletion_available" -> "unclear"
          [] f = "security_status" -> "unknown"
          [] f = "breach_severity" -> "none"]

EmptyProfile == <<>>

BestProfile ==
    [f \in ScoredFields |->
        CASE f \in TriFields -> "False"
          [] f = "opt_out_available" -> "True"
          [] f \in FlagFields -> "False"
          [] f \in {"user_friendly_privacy_info", "can_use_offline"} -> "True"
          [] f = "data_deletion_available" -> "all"
          [] f = "security_status" -> "good"
          [] f = "breach_severity" -> "none"]

WorstProfile ==
    [f \in ScoredFields |->
        CASE f \in TriFields -> "True"
          [] f = "opt_out_available" -> "False"
          [] f \in FlagFields -> "True"
          [] f \in {"user_friendly_privacy_info", "can_use_offline"} -> "False"
          [] f = "data_deletion_available" -> "no"
          [] f = "security_status" -> "warning"
          [] f = "breach_severity" -> "significant"]

BaseProfiles == {DefaultProfile, EmptyProfile, BestProfile, WorstProfile}

Field(d, f) == DictGet(d, f, "Missing")

\* the dict d with d[f] = v, or without the key f when v is "Missing"
WithField(d, f, v) ==
    IF v = "Missing"
    THEN [k \in (DOMAIN d) \ {f} |-> d[k]]
    ELSE (f :> v) @@ d

InitPrivacy ==
    /\ profile \in BaseProfiles
    /\ edited = {}
    /\ score = [op |-> "pending"]
    /\ ClassifyIdle /\ TallyIdle /\ WeightedIdle /\ ExtractIdle /\ ScrapeIdle /\ SaveIdle /\ MainIdle

\* the caller gives one more field of the profile another value
SetField ==
    /\ score.op = "pending"
    /\ Cardinality(edited) < MaxEdits
    /\ \E f \in ScoredFields \ edited :
         \E v \in FieldValues(f) \ {Field(profile, f)} :
            /\ profile' = WithField(profile, f, v)
            /\ edited' = edited \cup {f}
    /\ UNCHANGED <<score, classifyVars, tallyVars, weightedVars, extractVars, scrapeVars, saveVars, mainVars>>

CalculatePrivacyScore ==
    /\ score.op = "pending"
    /\ score' = [op |-> "scored", s |-> calculate_privacy_score(profile)]
    /\ UNCHANGED <<profile, edited, classifyVars, tallyVars, weightedVars, extractVars, scrapeVars, saveVars, mainVars>>

NextPrivacy == SetField \/ CalculatePrivacyScore

SpecPrivacy == InitPrivacy /\ [][NextPrivacy]_vars

Clamp(x, lo, hi) == IF x < lo THEN lo ELSE IF x > hi THEN hi ELSE x

\* C5: every sub-score lies within its cap (25, 25, 20, 20, 10) and is >= 0, and
\* the total lies in 0..100 and equals the sum of the five sub-scores clamped to
\* 0..100.
C5_ScoreWithinCaps ==
    score.op = "scored" =>
        LET r == score.s IN
        /\ r.data_collection \in 0..25
        /\ r.data_usage \in 0..25
        /\ r.user_control \in 0..20
        /\ r.security \in 0..20
        /\ r.transparency \in 0..10
        /\ r.total \in 0..100
        /\ r.total = Clamp(r.data_collection + r.data_usage + r.user_control
                           + r.security + r.transparency, 0, 100)

C5_Witness ==
    /\ score.op = "scored"
    /\ profile = BestProfile
    /\ score.s.data_collection = 25 /\ score.s.data_usage = 25
    /\ score.s.user_control = 20 /\ score.s.security = 20
    /\ score.s.transparency = 6 /\ score.s.total = 96

\* the ladder of the claim
LadderGrade(t) ==
    IF t >= 80 THEN <<"A", "Privacy Friendly">>
    ELSE IF t >= 60 THEN <<"B", "Acceptable">>
    ELSE IF t >= 40 THEN <<"C", "Caution Advised">>
    ELSE IF t >= 20 THEN <<"D", "Privacy Concerns">>
    ELSE <<"F", "Privacy Not Included">>

\* C6: the grade and label are those of the highest threshold (80 A, 60 B, 40 C,
\* 20 D, else F) the total reaches, for the total of every scored profile and
\* for every total in 0..100: 80 is A, 79 and 60 are B, 59 is C, 0 is F.
C6_GradeLadder ==
    /\ score.op = "scored" =>
          <<score.s.grade, score.s.label>> = LadderGrade(score.s.total)
    /\ (score.op = "scored" /\ edited = {}) =>
          \A t \in 0..100 :
             <<grade_of(t).grade, grade_of(t).label>> = LadderGrade(t)
    /\ score.op = "scored" =>
          /\ score.s.total = 80 => score.s.grade = "A"
          /\ score.s.total \in {79, 60} => score.s.grade = "B"
          /\ score.s.total = 59 => score.s.grade = "C"
          /\ score.s.total = 0 => score.s.grade = "F"

C6_Witness ==
    /\ score.op = "scored"
    /\ score.s.total = 80
    /\ score.s.grade = "A" /\ score.s.label = "Privacy Friendly"

Points(d, fs, pts) == pts * Cardinality({f \in fs : f \in DOMAIN d /\ d[f] = "False"})

\* C9: data_collection is 3 for each camera / microphone field that is False, 4
\* for each tracks_location field that is False, and 5 when collects_biometrics
\* is not set; a field that is None, missing or True earns nothing.
C9_DataCollection ==
    score.op = "scored" =>
        score.s.data_collection =
            Points(profile, {"camera_device", "camera_app",
                             "microphone_device", "microphone_app"}, 3)
          + Points(profile, {"tracks_location_device", "tracks_location_app"}, 4)
          + (IF Field(profile, "collects_biometrics") = "True" THEN 0 ELSE 5)

C9_Witness ==
    /\ score.op = "scored"
    /\ Field(profile, "camera_device") = "False"
    /\ Field(profile, "camera_app") = "None"
    /\ Field(profile, "tracks_location_app") = "False"
    /\ Field(profile, "microphone_device") = "None"
    /\ Field(profile, "microphone_app") = "None"
    /\ Field(profile, "tracks_location_device") = "None"
    /\ Field(profile, "collects_biometrics") = "False"
    /\ score.s.data_collection = 12

\* C10: security is 12 when known_breaches is not set, else 6 when
\* breach_severity is minor, else 0; plus 8 when security_status is good, 4 when
\* it is unknown or missing, 0 otherwise.
C10_Security ==
    score.op = "scored" =>
        LET kb == Field(profile, "known_breaches")
            sv == Field(profile, "breach_severity")
            st == Field(profile, "security_status")
        IN  score.s.security =
               (IF kb # "True" THEN 12 ELSE IF sv = "minor" THEN 6 ELSE 0)
             + (IF st = "good" THEN 8 ELSE IF st \in {"unknown", "Missing"} THEN 4 ELSE 0)

C10_Witness ==
    /\ score.op = "scored"
    /\ Field(profile, "known_breaches") = "True"
    /\ Field(profile, "breach_severity") = "minor"
    /\ Field(profile, "security_status") = "Missing"
    /\ score.s.security = 10

SubScoreSum(r) ==
    r.data_collection + r.data_usage + r.user_control + r.security + r.transparency

\* C11: user_control is the deletion points (10 all, 5 some_regions, 2 unclear or
\* key missing, 0 otherwise) + 5 for opt-out + 5 for user_friendly_privacy_info;
\* transparency is 3 for can_use_offline + 3 for the same flag; so a profile
\* with the flag True scores exactly 8 more in the sum of its sub-scores than
\* the same profile with the flag False, None or missing.
C11_FlagRewardedTwice ==
    score.op = "scored" =>
        LET del  == Field(profile, "data_deletion_available")
            flag == IF Field(profile, "user_friendly_privacy_info") = "True" THEN 1 ELSE 0
            opt  == IF Field(profile, "opt_out_available") = "True" THEN 1 ELSE 0
            off  == IF Field(profile, "can_use_offline") = "True" THEN 1 ELSE 0
        IN  /\ score.s.user_control =
                  (IF del = "all" THEN 10 ELSE IF del = "some_regions" THEN 5
                   ELSE IF del \in {"unclear", "Missing"} THEN 2 ELSE 0)
                  + 5 * opt + 5 * flag
            /\ score.s.transparency = 3 * off + 3 * flag
            /\ flag = 1 =>
                  \A v \in {"False", "None", "Missing"} :
                     SubScoreSum(score.s)
                       - SubScoreSum(calculate_privacy_score(
                            WithField(profile, "user_friendly_privacy_info", v))) = 8

C11_Witness ==
    /\ score.op = "scored"
    /\ Field(profile, "user_friendly_privacy_info") = "True"
    /\ Field(profile, "data_deletion_available") = "some_regions"
    /\ score.s.user_control = 15
    /\ score.s.transparency = 6

\* the points of the five categories, added without any cap
PlainPoints(d) ==
    LET del == Field(d, "data_deletion_available")
        st  == Field(d, "security_status")
        On(f) == IF Field(d, f) = "True" THEN 1 ELSE 0
    IN  [data_collection |->
            Points(d, {"camera_device", "camera_app",
                       "microphone_device", "microphone_app"}, 3)
          + Points(d, {"tracks_location_device", "tracks_location_app"}, 4)
          + 5 * (1 - On("collects_biometrics")),
         data_usage |->
            10 * (1 - On("sells_data")) + 8 * (1 - On("shares_for_marketing"))
          + 7 * (1 - On("targeted_advertising")),
         user_control |->
            (IF del = "all" THEN 10 ELSE IF del = "some_regions" THEN 5
             ELSE IF del \in {"unclear", "Missing"} THEN 2 ELSE 0)
          + 5 * On("opt_out_available") + 5 * On("user_friendly_privacy_info"),
         security |->
            (IF On("known_breaches") = 0 THEN 12
             ELSE IF Field(d, "breach_severity") = "minor" THEN 6 ELSE 0)
          + (IF st = "good" THEN 8 ELSE IF st \in {"unknown", "Missing"} THEN 4 ELSE 0),
         transparency |->
            3 * On("can_use_offline") + 3 * On("user_friendly_privacy_info")]

\* C22: the five sub-scores sum to at most 96 and at least 0, so neither the
\* clamp to 0..100 nor a per-category cap changes a value: every sub-score is
\* its uncapped points, total is the plain sum, and transparency is at most 6.
C22_CapsNeverBind ==
    score.op = "scored" =>
        LET r == score.s
            q == PlainPoints(profile)
        IN  /\ SubScoreSum(r) \in 0..96
            /\ r.total = SubScoreSum(r)
            /\ r.transparency <= 6
            /\ \A c \in {"data_collection", "data_usage", "user_control",
                         "security", "transparency"} : r[c] = q[c]

\* the best profile: 25 + 25 + 20 + 20 + 6
C22_Witness ==
    /\ score.op = "scored"
    /\ profile = BestProfile
    /\ score.s.total = 96
    /\ score.s.transparency = 6

-----------------------------------------------------------------------------
(* utils/pni_scoring.py: extract_privacy_data, the it-uses blocks          *)

\* the dict the function starts from, without url, product_name and company
InitialData == ("privacy_warning" :> "False") @@ DefaultProfile

\* s[i..] starts with w
StartsWithAt(s, i, w) ==
    /\ i + Len(w) - 1 <= Len(s)
    /\ (IF w = <<>> THEN TRUE ELSE s[i] = w[1])
    /\ SubSeq(s, i, i + Len(w) - 1) = w

\* `sub in s`
Contains(s, sub) == \E i \in 1..(Len(s) + 1) : StartsWithAt(s, i, sub)

\* [:\s]* from position j: the position after the run
RECURSIVE SkipSeparators(_, _)
SkipSeparators(s, j) ==
    IF j <= Len(s) /\ s[j] \in (Whitespace \cup {":"})
    THEN SkipSeparators(s, j + 1)
    ELSE j

\* (yes|no|n/a) at position j: the alternative that matches, in that order
TokenAt(s, j) ==
    IF StartsWithAt(s, j, <<"y","e","s">>) THEN "yes"
    ELSE IF StartsWithAt(s, j, <<"n","o">>) THEN "no"
    ELSE IF StartsWithAt(s, j, <<"n","/","a">>) THEN "n/a"
    ELSE "nomatch"

\* re.search(word + r'[:\s]*(yes|no|n/a)', s) from position i: group(1) of the
\* leftmost match, "nomatch" when there is none
RECURSIVE SearchFrom(_, _, _)
SearchFrom(s, w, i) ==
    IF i > Len(s) THEN "nomatch"
    ELSE IF StartsWithAt(s, i, w)
            /\ TokenAt(s, SkipSeparators(s, i + Len(w))) # "nomatch"
         THEN TokenAt(s, SkipSeparators(s, i + Len(w)))
         ELSE SearchFrom(s, w, i + 1)

re_search_token(w, s) == SearchFrom(s, w, 1)

\* m.group(1) == 'yes' if m else None
match_value(tok) ==
    IF tok = "nomatch" THEN "None" ELSE IF tok = "yes" THEN "True" ELSE "False"

K_device     == <<"d","e","v","i","c","e">>
K_app        == <<"a","p","p">>
K_camera     == <<"c","a","m","e","r","a">>
K_microphone == <<"m","i","c","r","o","p","h","o","n","e">>
K_location   == <<"l","o","c","a","t","i","o","n">>
K_tracks     == <<"t","r","a","c","k","s">>

device_val(text) == match_value(re_search_token(K_device, PyLower(text)))
app_val(text)    == match_value(re_search_token(K_app, PyLower(text)))

\* the group the if / elif chain on the label writes to
routed_group(label) ==
    IF Contains(label, K_camera) THEN "camera"
    ELSE IF Contains(label, K_microphone) THEN "microphone"
    ELSE IF Contains(label, K_location) \/ Contains(label, K_tracks) THEN "tracks_location"
    ELSE "none"

DeviceField(g) == CASE g = "camera" -> "camera_device"
                    [] g = "microphone" -> "microphone_device"
                    [] g = "tracks_location" -> "tracks_location_device"
AppField(g) == CASE g = "camera" -> "camera_app"
                 [] g = "microphone" -> "microphone_app"
                 [] g = "tracks_location" -> "tracks_location_app"

\* a block that keeps a value already found when it finds none itself
process_block_merge(d, b) ==
    IF ~b.has_h4 \/ ~b.has_explanation THEN d
    ELSE LET g == routed_group(PyLower(PyStrip(b.h4)))
             dv == device_val(b.explanation)
             av == app_val(b.explanation)
         IN  IF g = "none" THEN d
             ELSE (DeviceField(g) :> (IF dv = "None" THEN d[DeviceField(g)] ELSE dv)) @@
                  (AppField(g) :> (IF av = "None" THEN d[AppField(g)] ELSE av)) @@ d

\* one pass of the loop over soup.find_all('div', class_='it-uses')
process_block(d, b) ==
    IF ~b.has_h4 THEN d
    ELSE IF ~b.has_explanation THEN d
    ELSE LET g == routed_group(PyLower(PyStrip(b.h4)))
         IN  IF g = "none" THEN d
             ELSE (DeviceField(g) :> device_val(b.explanation)) @@
                  (AppField(g) :> app_val(b.explanation)) @@ d

P_biometric == <<"b","i","o","m","e","t","r","i","c">>
P_fingerprint == <<"f","i","n","g","e","r","p","r","i","n","t">>
P_faceprint == <<"f","a","c","e","p","r","i","n","t">>
P_voiceprint == <<"v","o","i","c","e","p","r","i","n","t">>
P_facial == <<"f","a","c","i","a","l"," ","r","e","c","o","g","n","i","t","i",
    "o","n">>
P_how_use == <<"h","o","w"," ","d","o","e","s"," ","t","h","e"," ","c","o",
    "m","p","a","n","y"," ","u","s","e">>
P_sell == <<"s","e","l","l">>
P_marketing == <<"m","a","r","k","e","t","i","n","g">>
P_sells_and_shares == <<"s","e","l","l","s"," ","a","n","d"," ","s","h","a",
    "r","e","s"," ","p","e","r","s","o","n","a","l"," ","d","a","t","a">>
P_sells_personal == <<"s","e","l","l","s"," ","p","e","r","s","o","n","a","l",
    " ","d","a","t","a">>
P_shares_personal == <<"s","h","a","r","e","s"," ","p","e","r","s","o","n",
    "a","l"," ","d","a","t","a">>
P_targeted == <<"t","a","r","g","e","t","e","d"," ","a","d","v","e","r","t",
    "i","s","i","n","g">>
P_behavioral == <<"b","e","h","a","v","i","o","r","a","l"," ","a","d","v","e",
    "r","t","i","s","i","n","g">>
P_cross_context == <<"c","r","o","s","s","-","c","o","n","t","e","x","t"," ",
    "b","e","h","a","v","i","o","r","a","l">>
P_right_to == <<"r","i","g","h","t"," ","t","o">>
P_delete == <<"d","e","l","e","t","e">>
P_erasure == <<"e","r","a","s","u","r","e">>
P_optout == <<"o","p","t","o","u","t">>
P_opt_dash_out == <<"o","p","t","-","o","u","t">>
P_opt_space_out == <<"o","p","t"," ","o","u","t">>
P_do_not_sell == <<"d","o"," ","n","o","t"," ","s","e","l","l">>
P_user_friendly == <<"u","s","e","r","-","f","r","i","e","n","d","l","y"," ",
    "p","r","i","v","a","c","y">>
P_track_record == <<"t","r","a","c","k"," ","r","e","c","o","r","d">>
P_breach == <<"b","r","e","a","c","h">>
P_attack == <<"a","t","t","a","c","k">>
P_hack == <<"h","a","c","k">>
P_ransomware == <<"r","a","n","s","o","m","w","a","r","e">>
P_significant == <<"s","i","g","n","i","f","i","c","a","n","t">>
R_yes == <<"y","e","s">>
R_good == <<"g","o","o","d">>
R_average == <<"a","v","e","r","a","g","e">>
R_needs_improvement == <<"n","e","e","d","s"," ","i","m","p","r","o","v","e",
    "m","e","n","t">>
R_bad == <<"b","a","d">>
P_pni == <<"*","p","r","i","v","a","c","y"," ","n","o","t"," ","i","n","c",
    "l","u","d","e","d">>

\* get_text() of an it-uses block and of a section
BlockText(b) ==
    (IF b.has_h4 THEN b.h4 ELSE <<>>) \o
    (IF b.has_explanation THEN b.explanation ELSE <<>>)

SectionText(s) == (IF s.has_h3 THEN s.h3 ELSE <<>>) \o s.body

RECURSIVE JoinBlocks(_)
JoinBlocks(bs) ==
    IF bs = <<>> THEN <<>> ELSE BlockText(Head(bs)) \o <<"\n">> \o JoinBlocks(Tail(bs))

RECURSIVE JoinSections(_)
JoinSections(ss) ==
    IF ss = <<>> THEN <<>> ELSE SectionText(Head(ss)) \o <<"\n">> \o JoinSections(Tail(ss))

\* the text of the container of an <h3>: the heading, the first rating element
\* of the container, and the rest
ParentText(h) ==
    h.h3 \o <<"\n">> \o (IF h.has_rating THEN h.rating \o <<"\n">> ELSE <<>>) \o h.body

RECURSIVE JoinHeadings(_)
JoinHeadings(hs) ==
    IF hs = <<>> THEN <<>> ELSE ParentText(Head(hs)) \o <<"\n">> \o JoinHeadings(Tail(hs))

\* soup.get_text().lower()
soup_text_lower(bs, ss, fr, hs) ==
    PyLower(JoinBlocks(bs) \o JoinSections(ss) \o fr.text \o JoinHeadings(hs))

PyBool(b) == IF b THEN "True" ELSE "False"

\* any(term in text_lower for term in biometric_terms)
collects_biometrics(d, t) ==
    ("collects_biometrics" :>
        PyBool(\E term \in {P_biometric, P_fingerprint, P_faceprint,
                            P_voiceprint, P_facial} : Contains(t, term))) @@ d

\* soup.find_all('section', class_='show-ding')
ding_sections(ss) == SelectSeq(ss, LAMBDA s : s.ding)

\* a section that writes both flags, true or false
process_section_assign(d, s) ==
    LET section_text == PyLower(SectionText(s))
        h3_text == IF s.has_h3 THEN PyLower(s.h3) ELSE <<>>
    IN  IF Contains(h3_text, P_how_use)
        THEN ("sells_data" :> PyBool(Contains(section_text, P_sell))) @@
             ("shares_for_marketing" :> PyBool(Contains(section_text, P_marketing))) @@ d
        ELSE d

\* one pass of the loop over the show-ding sections
process_section(d, s) ==
    LET section_text == PyLower(SectionText(s))
        h3_text == IF s.has_h3 THEN PyLower(s.h3) ELSE <<>>
    IN  IF Contains(h3_text, P_how_use)
        THEN (IF Contains(section_text, P_sell)
              THEN ("sells_data" :> "True") ELSE <<>>) @@
             (IF Contains(section_text, P_marketing)
              THEN ("shares_for_marketing" :> "True") ELSE <<>>) @@ d
        ELSE d

\* bool(re.search(r'opt[- ]?out', t))
re_search_opt_out(t) ==
    Contains(t, P_optout) \/ Contains(t, P_opt_dash_out) \/ Contains(t, P_opt_space_out)

\* a right to delete read as deletion for everyone
direct_patterns_all(d, t) ==
    (IF Contains(t, P_sells_and_shares) \/ Contains(t, P_sells_personal)
     THEN ("sells_data" :> "True") ELSE <<>>) @@
    (IF Contains(t, P_shares_personal)
     THEN ("shares_for_marketing" :> "True") ELSE <<>>) @@
    ("targeted_advertising" :>
        PyBool(\E term \in {P_targeted, P_behavioral, P_cross_context} :
                  Contains(t, term))) @@
    (IF Contains(t, P_right_to) /\ (Contains(t, P_delete) \/ Contains(t, P_erasure))
     THEN ("data_deletion_available" :> "all") ELSE <<>>) @@
    ("opt_out_available" :> PyBool(re_search_opt_out(t) \/ Contains(t, P_do_not_sell))) @@
    d

\* the whole-document rules: direct patterns, targeted advertising, user control
direct_patterns(d, t) ==
    (IF Contains(t, P_sells_and_shares) \/ Contains(t, P_sells_personal)
     THEN ("sells_data" :> "True") ELSE <<>>) @@
    (IF Contains(t, P_shares_personal)
     THEN ("shares_for_marketing" :> "True") ELSE <<>>) @@
    ("targeted_advertising" :>
        PyBool(\E term \in {P_targeted, P_behavioral, P_cross_context} :
                  Contains(t, term))) @@
    (IF Contains(t, P_right_to) /\ (Contains(t, P_delete) \/ Contains(t, P_erasure))
     THEN ("data_deletion_available" :> "some_regions") ELSE <<>>) @@
    ("opt_out_available" :> PyBool(re_search_opt_out(t) \/ Contains(t, P_do_not_sell))) @@
    d

\* the <h3> of a section of the document: the section is its container, and
\* the sections of the documents here hold no rating element
SectionHeading(s) ==
    [h3 |-> s.h3, has_parent |-> TRUE, has_rating |-> FALSE, rating |-> <<>>, body |-> s.body]

RECURSIVE SectionHeadings(_)
SectionHeadings(ss) ==
    IF ss = <<>> THEN <<>>
    ELSE (IF Head(ss).has_h3 THEN <<SectionHeading(Head(ss))>> ELSE <<>>)
         \o SectionHeadings(Tail(ss))

\* soup.find_all('h3')
find_all_h3(ss, hs) == SectionHeadings(ss) \o hs

\* the first rating wins instead of the last
track_record_status_first(d, rating_text) ==
    IF d["security_status"] # "unknown" THEN d
    ELSE IF rating_text = R_good THEN ("security_status" :> "good") @@ d
    ELSE IF rating_text \in {R_average, R_needs_improvement, R_bad}
         THEN ("security_status" :> "warning") @@ d
    ELSE d

\* if rating_text == 'good' ... elif rating_text in [...]
track_record_status(d, rating_text) ==
    IF rating_text = R_good THEN ("security_status" :> "good") @@ d
    ELSE IF rating_text \in {R_average, R_needs_improvement, R_bad}
         THEN ("security_status" :> "warning") @@ d
    ELSE d

\* the severity of the first breach is kept
track_record_breaches_first(d, section_text) ==
    IF \E term \in {P_breach, P_attack, P_hack, P_ransomware} : Contains(section_text, term)
    THEN ("known_breaches" :> "True") @@
         ("breach_severity" :>
             IF d["breach_severity"] # "none" THEN d["breach_severity"]
             ELSE IF Contains(section_text, P_significant) THEN "significant" ELSE "minor") @@
         d
    ELSE d

\* if any(term in section_text ...): known_breaches and breach_severity
track_record_breaches(d, section_text) ==
    IF \E term \in {P_breach, P_attack, P_hack, P_ransomware} : Contains(section_text, term)
    THEN ("known_breaches" :> "True") @@
         ("breach_severity" :>
             IF Contains(section_text, P_significant) THEN "significant" ELSE "minor") @@
         d
    ELSE d

\* the body of the loop over the <h3> elements
process_heading(d, h) ==
    IF ~h.has_parent THEN d
    ELSE IF ~h.has_rating THEN d
    ELSE LET h3_text     == PyLower(h.h3)
             rating_text == PyLower(PyStrip(h.rating))
         IN  IF Contains(h3_text, P_user_friendly)
             THEN ("user_friendly_privacy_info" :> PyBool(rating_text = R_yes)) @@ d
             ELSE IF Contains(h3_text, P_track_record)
             THEN track_record_breaches(track_record_status(d, rating_text),
                                        PyLower(ParentText(h)))
             ELSE d

\* the privacy-ding-band element or the phrase in the text
privacy_warning(d, fr, t) ==
    IF fr.band \/ Contains(t, P_pni) THEN ("privacy_warning" :> "True") @@ d ELSE d

-----------------------------------------------------------------------------
(* SpecExtract: extract_privacy_data on a document of at most MaxBlocks    *)
(* it-uses blocks.                                                          *)

L_Camera    == <<"C","a","m","e","r","a">>
L_Micro     == <<" ","M","i","c","r","o","p","h","o","n","e","\n">>
L_Tracks    == <<"T","r","a","c","k","s"," ","l","o","c","a","t","i","o","n">>
L_CamMic    == L_Micro \o <<"&"," ">> \o L_Camera
L_Privacy   == <<"P","r","i","v","a","c","y">>

BlockLabels == {L_Camera, L_Micro, L_Tracks, L_CamMic, L_Privacy}

T_Device == <<"D","e","v","i","c","e",":"," ">>
T_App    == <<"A","p","p",":"," ">>
T_Yes    == <<"Y","e","s">>
T_No     == <<"N","o">>
T_NA     == <<"N","/","A">>
T_Stop   == <<"."," ">>

\* "Device: <dev>. App: <app>. "
Explanation(dev, app) == T_Device \o dev \o T_Stop \o T_App \o app \o T_Stop

T_Unclear == <<"C","a","n","'","t"," ","d","e","t","e","r","m","i","n","e">>

Explanations == {Explanation(T_No, T_Yes), Explanation(T_Yes, T_NA), T_Unclear}

Block(h, hasH, e, hasE) ==
    [h4 |-> h, has_h4 |-> hasH, explanation |-> e, has_explanation |-> hasE]

Blocks ==
    {Block(l, TRUE, e, TRUE) : l \in BlockLabels, e \in Explanations}
    \cup {Block(l, TRUE, <<>>, FALSE) : l \in BlockLabels}
    \cup {Block(<<>>, FALSE, Explanation(T_No, T_No), TRUE)}

H_HowUse == <<"H","o","w"," ","d","o","e","s"," ","t","h","e"," ","c","o","m",
    "p","a","n","y"," ","u","s","e"," ","t","h","i","s"," ","d","a","t","a",
    "?">>
H_WhatData == <<"W","h","a","t"," ","d","a","t","a"," ","d","o","e","s"," ",
    "t","h","e"," ","c","o","m","p","a","n","y"," ","c","o","l","l","e","c",
    "t","?">>
B_Sell == <<"T","h","e"," ","c","o","m","p","a","n","y"," ","c","a","n"," ",
    "s","e","l","l"," ","y","o","u","r"," ","d","a","t","a",".">>
B_Marketing == <<"D","a","t","a"," ","i","s"," ","u","s","e","d"," ","f","o",
    "r"," ","M","a","r","k","e","t","i","n","g",".">>
B_Both == <<"W","e"," ","s","e","l","l"," ","d","a","t","a"," ","f","o","r",
    " ","m","a","r","k","e","t","i","n","g",".">>
B_Neither == <<"D","a","t","a"," ","s","t","a","y","s"," ","o","n"," ","t",
    "h","e"," ","d","e","v","i","c","e",".">>
F_Sells == <<"A","c","m","e"," ","s","e","l","l","s"," ","p","e","r","s","o",
    "n","a","l"," ","d","a","t","a",".">>
F_SellsAndShares == <<"A","c","m","e"," ","s","e","l","l","s"," ","a","n","d",
    " ","s","h","a","r","e","s"," ","p","e","r","s","o","n","a","l"," ","d",
    "a","t","a",".">>
F_Shares == <<"A","c","m","e"," ","s","h","a","r","e","s"," ","p","e","r","s",
    "o","n","a","l"," ","d","a","t","a"," ","w","i","t","h"," ","p","a","r",
    "t","n","e","r","s",".">>
F_Rights == <<"Y","o","u"," ","h","a","v","e"," ","t","h","e"," ","r","i","g",
    "h","t"," ","t","o"," ","d","e","l","e","t","e"," ","y","o","u","r"," ",
    "d","a","t","a"," ","a","n","d"," ","c","a","n"," ","o","p","t"," ","o",
    "u","t","."," ","D","o"," ","N","o","t"," ","S","e","l","l",".">>
F_Ads == <<"F","i","n","g","e","r","p","r","i","n","t"," ","u","n","l","o",
    "c","k","."," ","T","a","r","g","e","t","e","d"," ","a","d","v","e","r",
    "t","i","s","i","n","g","."," ","*","P","r","i","v","a","c","y"," ","N",
    "o","t"," ","I","n","c","l","u","d","e","d">>

Section(ding, hasH3, h, b) == [ding |-> ding, has_h3 |-> hasH3, h3 |-> h, body |-> b]

Sections ==
    {Section(TRUE, TRUE, H_HowUse, b) : b \in {B_Sell, B_Marketing, B_Neither}}
    \cup {Section(FALSE, TRUE, H_HowUse, B_Both),
          Section(TRUE, TRUE, H_WhatData, B_Both),
          Section(TRUE, FALSE, <<>>, B_Sell)}

Free(t, band) == [text |-> t, band |-> band]

NoFree == Free(<<>>, FALSE)

Frees ==
    {Free(t, FALSE) : t \in {<<>>, F_Sells, F_SellsAndShares, F_Shares, F_Rights, F_Ads}}
    \cup {Free(<<>>, TRUE)}

\* a document of it-uses blocks, or a document of sections and other text
HT_Track == <<"K","n","o","w","n"," ","T","r","a","c","k"," ","R","e","c","o",
    "r","d">>
HT_Friendly == <<"U","s","e","r","-","f","r","i","e","n","d","l","y"," ","p",
    "r","i","v","a","c","y"," ","i","n","f","o","r","m","a","t","i","o","n",
    "?">>
HT_Both == <<"U","s","e","r","-","f","r","i","e","n","d","l","y"," ","p","r",
    "i","v","a","c","y"," ","a","n","d"," ","t","r","a","c","k"," ","r","e",
    "c","o","r","d">>
RT_Good == <<"G","o","o","d">>
RT_Bad == <<" ","B","a","d","\n">>
RT_Average == <<"A","v","e","r","a","g","e">>
RT_Needs == <<"N","e","e","d","s"," ","i","m","p","r","o","v","e","m","e","n",
    "t">>
RT_NA == <<"N","/","A">>
RT_Yes == <<"Y","e","s">>
RT_No == <<"N","o">>
HB_None == <<"N","o"," ","k","n","o","w","n"," ","i","n","c","i","d","e","n",
    "t","s",".">>
HB_Significant == <<"A"," ","s","i","g","n","i","f","i","c","a","n","t"," ",
    "d","a","t","a"," ","b","r","e","a","c","h"," ","i","n"," ","2","0","2",
    "2",".">>
HB_Minor == <<"H","a","c","k","e","r","s"," ","g","o","t"," ","i","n"," ","o",
    "n","c","e",".">>

Heading(h, hasParent, hasRating, r, b) ==
    [h3 |-> h, has_parent |-> hasParent, has_rating |-> hasRating, rating |-> r, body |-> b]

\* <h3> elements: in a container or not, the container with a rating element
\* or not, with every rating the code tells apart and one it does not
Headings ==
    {Heading(HT_Track, TRUE, TRUE, RT_Good, HB_None),
     Heading(HT_Track, TRUE, TRUE, RT_Bad, HB_Significant),
     Heading(HT_Track, TRUE, TRUE, RT_Average, HB_Minor),
     Heading(HT_Track, TRUE, TRUE, RT_Needs, HB_None),
     Heading(HT_Track, TRUE, TRUE, RT_NA, HB_Minor),
     Heading(HT_Track, TRUE, FALSE, <<>>, HB_Significant),
     Heading(HT_Track, FALSE, FALSE, <<>>, HB_Minor),
     Heading(HT_Friendly, TRUE, TRUE, RT_Yes, HB_None),
     Heading(HT_Friendly, TRUE, TRUE, RT_No, HB_Minor),
     Heading(HT_Both, TRUE, TRUE, RT_Good, HB_Significant)}

InitExtract ==
    /\ \/ /\ doc \in SeqsUpTo(Blocks, MaxBlocks)
          /\ sections = <<>>
          /\ free = NoFree
          /\ headings = <<>>
       \/ /\ doc = <<>>
          /\ sections \in SeqsUpTo(Sections, MaxSections)
          /\ free \in Frees
          /\ headings = <<>>
       \/ /\ doc = <<>>
          /\ sections = <<>>
          /\ free = NoFree
          /\ headings \in SeqsUpTo(Headings, MaxHeadings)
    /\ data = <<>>
    /\ bi = 0
    /\ si = 0
    /\ h3i = 0
    /\ text_lower = <<>>
    /\ epc = "start"
    /\ ClassifyIdle /\ TallyIdle /\ WeightedIdle /\ PrivacyIdle /\ ScrapeIdle /\ SaveIdle /\ MainIdle

extractRest == <<classifyVars, tallyVars, weightedVars, privacyVars, scrapeVars, saveVars, mainVars>>

\* the data dict is created
ExtractBegin ==
    /\ epc = "start"
    /\ data' = InitialData
    /\ text_lower' = soup_text_lower(doc, sections, free, headings)
    /\ epc' = "blocks"
    /\ UNCHANGED <<doc, bi, sections, free, si, headings, h3i, extractRest>>

\* the loop handles the next block of the document
ProcessBlock ==
    /\ epc = "blocks"
    /\ bi < Len(doc)
    /\ data' = process_block(data, doc[bi + 1])
    /\ bi' = bi + 1
    /\ UNCHANGED <<doc, epc, sections, free, si, text_lower, headings, h3i, extractRest>>

\* the loop over the blocks is over: the biometric terms
CollectsBiometrics ==
    /\ epc = "blocks"
    /\ bi = Len(doc)
    /\ data' = collects_biometrics(data, text_lower)
    /\ epc' = "sections"
    /\ UNCHANGED <<doc, bi, sections, free, si, text_lower, headings, h3i, extractRest>>

\* the loop handles the next show-ding section
ProcessSection ==
    /\ epc = "sections"
    /\ si < Len(ding_sections(sections))
    /\ data' = process_section(data, ding_sections(sections)[si + 1])
    /\ si' = si + 1
    /\ UNCHANGED <<doc, bi, epc, sections, free, text_lower, headings, h3i, extractRest>>

\* the loop over the sections is over: the rules on the whole text
DirectPatterns ==
    /\ epc = "sections"
    /\ si = Len(ding_sections(sections))
    /\ data' = direct_patterns(data, text_lower)
    /\ epc' = "headings"
    /\ UNCHANGED <<doc, bi, sections, free, si, text_lower, headings, h3i, extractRest>>

\* the loop handles the next <h3> element
ProcessHeading ==
    /\ epc = "headings"
    /\ h3i < Len(find_all_h3(sections, headings))
    /\ data' = process_heading(data, find_all_h3(sections, headings)[h3i + 1])
    /\ h3i' = h3i + 1
    /\ UNCHANGED <<doc, bi, epc, sections, free, si, text_lower, headings, extractRest>>

\* the loop over the <h3> elements is over: the privacy warning, and the dict
\* is returned
ExtractReturn ==
    /\ epc = "headings"
    /\ h3i = Len(find_all_h3(sections, headings))
    /\ data' = privacy_warning(data, free, text_lower)
    /\ epc' = "done"
    /\ UNCHANGED <<doc, bi, sections, free, si, text_lower, headings, h3i, extractRest>>

NextExtract ==
    \/ ExtractBegin \/ ProcessBlock \/ CollectsBiometrics
    \/ ProcessSection \/ DirectPatterns \/ ProcessHeading \/ ExtractReturn

SpecExtract == InitExtract /\ [][NextExtract]_vars

\* the value the claim gives a matched token
ClaimedValue(tok) ==
    IF tok = "yes" THEN "True" ELSE IF tok = "no" THEN "False" ELSE "None"

\* C7: a block with an explanation text gives the device and the app field of
\* its group True for a matched "yes", False for a matched "no", and None for
\* no match or a matched "n/a".
C7_TriStateFromToken ==
    (epc = "blocks" /\ bi > 0 /\ doc[bi].has_h4 /\ doc[bi].has_explanation
        /\ routed_group(PyLower(PyStrip(doc[bi].h4))) # "none")
    => LET g == routed_group(PyLower(PyStrip(doc[bi].h4)))
           t == PyLower(doc[bi].explanation)
       IN  /\ data[DeviceField(g)] = ClaimedValue(re_search_token(K_device, t))
           /\ data[AppField(g)] = ClaimedValue(re_search_token(K_app, t))

\* the groups whose keyword the heading label of block b contains
LabelGroups(b) ==
    IF ~b.has_h4 THEN {}
    ELSE LET l == PyLower(PyStrip(b.h4))
         IN  (IF Contains(l, K_camera) THEN {"camera"} ELSE {})
             \cup (IF Contains(l, K_microphone) THEN {"microphone"} ELSE {})
             \cup (IF Contains(l, K_location) \/ Contains(l, K_tracks)
                   THEN {"tracks_location"} ELSE {})

\* the pair a block yields: None where it yields no token
DerivedPair(b) ==
    IF b.has_explanation
    THEN <<device_val(b.explanation), app_val(b.explanation)>>
    ELSE <<"None", "None">>

Last(S) == CHOOSE i \in S : \A j \in S : j <= i

Groups == {"camera", "microphone", "tracks_location"}

\* C8 as stated: at the end, each group holds the pair derived from the last
\* block whose heading label contains the group's keyword.
C8_LastMatchingLabelWins ==
    epc = "done" =>
        \A g \in Groups :
            LET M == {i \in 1..Len(doc) : g \in LabelGroups(doc[i])}
            IN  M # {} =>
                  <<data[DeviceField(g)], data[AppField(g)]>> = DerivedPair(doc[Last(M)])

\* the blocks that write to group g: a heading, an explanation element, and g
\* the first group (camera, microphone, location) whose keyword the label holds
Writers(g) ==
    {i \in 1..Len(doc) :
        /\ doc[i].has_h4 /\ doc[i].has_explanation
        /\ g \in LabelGroups(doc[i])
        /\ (g = "microphone" => "camera" \notin LabelGroups(doc[i]))
        /\ (g = "tracks_location" =>
               LabelGroups(doc[i]) \cap {"camera", "microphone"} = {})}

\* C8, amended: at the end, each group holds the pair derived from the last
\* block that has an explanation element and whose label routes it to the group
\* (both fields overwritten, None where that block yields no token); a group no
\* block writes to is None, None.
C8_LastWriterWins ==
    epc = "done" =>
        \A g \in Groups :
            <<data[DeviceField(g)], data[AppField(g)]>> =
                IF Writers(g) = {} THEN <<"None", "None">>
                ELSE DerivedPair(doc[Last(Writers(g))])

C8_Witness ==
    /\ epc = "done"
    /\ doc = <<Block(L_Camera, TRUE, Explanation(T_No, T_Yes), TRUE),
               Block(L_Camera, TRUE, T_Unclear, TRUE)>>
    /\ data["camera_device"] = "None" /\ data["camera_app"] = "None"

\* the sources of sells_data and of shares_for_marketing in the document
UseSections ==
    {i \in 1..Len(sections) :
        /\ sections[i].ding /\ sections[i].has_h3
        /\ Contains(PyLower(sections[i].h3), P_how_use)}

SellsSources ==
    \/ \E i \in UseSections : Contains(PyLower(SectionText(sections[i])), P_sell)
    \/ Contains(text_lower, P_sells_and_shares)
    \/ Contains(text_lower, P_sells_personal)

SharesSources ==
    \/ \E i \in UseSections : Contains(PyLower(SectionText(sections[i])), P_marketing)
    \/ Contains(text_lower, P_shares_personal)

\* C12: sells_data and shares_for_marketing end true exactly when one of their
\* sources says true (a show-ding "how does the company use" section holding
\* "sell" / "marketing", or the whole-document phrases), and no step of the
\* function takes a flag from true back to false.
C12_UseFlagsMonotone ==
    /\ [](epc = "done" =>
            /\ (data["sells_data"] = "True") <=> SellsSources
            /\ (data["shares_for_marketing"] = "True") <=> SharesSources)
    /\ [][(epc \notin {"idle", "start"}) =>
            /\ (data["sells_data"] = "True" => data'["sells_data"] = "True")
            /\ (data["shares_for_marketing"] = "True"
                   => data'["shares_for_marketing"] = "True")]_vars

\* a selling section followed by a use section that mentions neither word
C12_Witness ==
    /\ epc = "done"
    /\ sections = <<Section(TRUE, TRUE, H_HowUse, B_Sell),
                    Section(TRUE, TRUE, H_HowUse, B_Neither)>>
    /\ free = NoFree
    /\ data["sells_data"] = "True"
    /\ data["shares_for_marketing"] = "False"

-----------------------------------------------------------------------------
(* SpecExtract: the ratings read from the <h3> elements.                   *)

\* the heading text contains 'track record'
TrackRecord(h) == Contains(PyLower(h.h3), P_track_record)

\* the heading text contains 'user-friendly privacy'
UserFriendly(h) == Contains(PyLower(h.h3), P_user_friendly)

\* the rating of the container of a heading
RatingOf(h) == PyLower(PyStrip(h.rating))

\* the container of the heading has one of the four ratings
FourRatings(h) ==
    /\ h.has_parent
    /\ h.has_rating
    /\ RatingOf(h) \in {R_good, R_average, R_needs_improvement, R_bad}

\* the container of the heading mentions a breach term
MentionsBreach(h) ==
    /\ h.has_parent
    /\ \E term \in {P_breach, P_attack, P_hack, P_ransomware} :
          Contains(PyLower(ParentText(h)), term)

StatusFrom(h) == IF RatingOf(h) = R_good THEN "good" ELSE "warning"

SeverityFrom(h) ==
    IF Contains(PyLower(ParentText(h)), P_significant) THEN "significant" ELSE "minor"

\* the headings of the document, once all of them are handled
AllHeadings == find_all_h3(sections, headings)

\* the headings the elif chain hands to the track-record branch
InTrackBranch(h) == h.has_parent /\ h.has_rating /\ TrackRecord(h) /\ ~UserFriendly(h)

\* C21 as stated: security_status is read from the last heading holding
\* 'track record' whose container has one of the four ratings
C21_LastTrackRecordHeading ==
    epc = "done" =>
        LET I == {i \in 1..Len(AllHeadings) :
                    TrackRecord(AllHeadings[i]) /\ FourRatings(AllHeadings[i])}
        IN  data["security_status"] =
                IF I = {} THEN "unknown" ELSE StatusFrom(AllHeadings[Last(I)])

\* C21: after any number of headings, and so when every heading is handled,
\* security_status is "good" or "warning" after the rating of the last handled
\* heading of the track-record branch whose container has one of the four
\* ratings, and "unknown" when there is none; a heading of another kind, with
\* another rating, without a container or without a rating element therefore
\* leaves security_status as it was
C21_LastTrackBranchHeading ==
    epc \in {"headings", "done"} =>
        LET I == {i \in 1..h3i :
                    InTrackBranch(AllHeadings[i]) /\ FourRatings(AllHeadings[i])}
        IN  /\ epc = "done" => h3i = Len(AllHeadings)
            /\ data["security_status"] =
                    IF I = {} THEN "unknown" ELSE StatusFrom(AllHeadings[Last(I)])

C21_Witness ==
    /\ epc = "done"
    /\ Len(headings) = 2
    /\ InTrackBranch(headings[1]) /\ FourRatings(headings[1])
    /\ InTrackBranch(headings[2]) /\ FourRatings(headings[2])
    /\ StatusFrom(headings[1]) = "good"
    /\ data["security_status"] = "warning"

\* C23 as stated: the two breach fields go together and breach_severity is
\* read from the last container of a heading holding 'track record' that
\* mentions a breach term
C23_LastBreachContainer ==
    /\ data # <<>> => (data["known_breaches"] = "True" <=> data["breach_severity"] # "none")
    /\ epc = "done" =>
           LET I == {i \in 1..Len(AllHeadings) :
                       TrackRecord(AllHeadings[i]) /\ MentionsBreach(AllHeadings[i])}
           IN  data["breach_severity"] =
                   IF I = {} THEN "none" ELSE SeverityFrom(AllHeadings[Last(I)])

\* C23: known_breaches is true exactly when breach_severity is not "none";
\* after any number of headings, and so when every heading is handled,
\* known_breaches is true exactly when a handled heading of the track-record
\* branch has a container that mentions a breach term (so no later heading
\* resets it), and breach_severity is the value read from the last of them
C23_LastBreachInTrackBranch ==
    /\ data # <<>> =>
          (data["known_breaches"] = "True" <=> data["breach_severity"] # "none")
    /\ epc \in {"headings", "done"} =>
          LET I == {i \in 1..h3i :
                      InTrackBranch(AllHeadings[i]) /\ MentionsBreach(AllHeadings[i])}
          IN  /\ epc = "done" => h3i = Len(AllHeadings)
              /\ data["known_breaches"] = PyBool(I # {})
              /\ data["breach_severity"] =
                      IF I = {} THEN "none" ELSE SeverityFrom(AllHeadings[Last(I)])

C23_Witness ==
    /\ epc = "done"
    /\ Len(headings) = 2
    /\ InTrackBranch(headings[1]) /\ MentionsBreach(headings[1])
    /\ InTrackBranch(headings[2]) /\ MentionsBreach(headings[2])
    /\ SeverityFrom(headings[1]) = "significant"
    /\ data["breach_severity"] = "minor"
    /\ data["known_breaches"] = "True"

\* C25: in every profile extract_privacy_data returns, can_use_offline holds
\* no value and data_deletion_available is "unclear" or "some_regions"; the
\* score of such a profile has transparency 0 or 3 (no offline bonus),
\* user_control in 2..15 and a total in 2..88
C25_PipelineRanges ==
    epc = "done" =>
        /\ data["can_use_offline"] = "None"
        /\ data["data_deletion_available"] \in {"unclear", "some_regions"}
        /\ LET r == calculate_privacy_score(data)
           IN  /\ r.transparency \in {0, 3}
               /\ r.transparency =
                     (IF data["user_friendly_privacy_info"] = "True" THEN 3 ELSE 0)
               /\ r.user_control \in 2..15
               /\ r.total \in 2..88

C25_Witness ==
    /\ epc = "done"
    /\ data["data_deletion_available"] = "some_regions"
    /\ data["opt_out_available"] = "True"
    /\ calculate_privacy_score(data).user_control = 10
    /\ calculate_privacy_score(data).transparency = 0

-----------------------------------------------------------------------------
(* SpecTally: missing values, column choice, the summary rows.             *)

Missing(v) == v.kind \in {"None", "nan"}

HandlerOps == {"handle_score_certificate_analysis", "handle_score_network_security",
               "handle_score_manifest_analysis"}

\* the column a handler reads: SEVERITY before severity
HandlerColumn(cols) == IF "SEVERITY" \in cols THEN "SEVERITY" ELSE "severity"

\* the cells a count operation has read
CellsRead ==
    IF out.op = "tally_risks" THEN values
    ELSE ColumnCells(values, HandlerColumn(columns))

\* C15: a missing severity value is counted in no level: the counts returned by
\* tally_risks and by each handler for a dataset with a severity column sum to
\* the number of rows whose value is present.
C15_MissingNeverCounted ==
    (/\ out.op \in CountOps
     /\ out.status = "ok"
     /\ (out.op \in HandlerOps => ("SEVERITY" \in columns \/ "severity" \in columns)))
    => SumValues(DOMAIN out.result, out.result)
          = Cardinality({i \in 1..Len(CellsRead) : ~Missing(CellsRead[i])})

SixSpellings == Range(ColumnNames)

\* C16: a dataset with none of the six column spellings is reported with the
\* single bucket unknown = number of rows, by the three handlers and by the
\* permissions module, which keeps the manufacturer in its list.
C16_UnknownBucket ==
    (/\ out.op \in HandlerOps \cup {"collect_permission_summaries"}
     /\ columns \cap SixSpellings = {})
    => /\ out.status = "ok"
       /\ IF out.op \in HandlerOps
          THEN out.result = ("unknown" :> Len(values))
          ELSE /\ Len(out.result) = 1
               /\ DictGet(out.result[1], "unknown", 0) = Len(values)

\* the first of SEVERITY, severity, Severity, STATUS, status, Status present
ClaimedColumn(cols) == FirstPresent(ColumnNames, cols, 1)

\* C17: every module that returns classifies the first column present in the
\* order SEVERITY, severity, Severity, STATUS, status, Status, and takes the
\* dataset-level fallback only when none of the six is present.
C17_FirstColumnInFixedOrder ==
    (/\ out.op \in HandlerOps \cup {"collect_permission_summaries"}
     /\ out.status = "ok"
     /\ columns \cap SixSpellings # {})
    => IF out.op \in HandlerOps
       THEN out.result = mapped_counts(ColumnCells(values, ClaimedColumn(columns)))
       ELSE /\ Len(out.result) = 1
            /\ LET r == summarize_risks(ColumnCells(values, ClaimedColumn(columns)))
               IN  /\ out.result[1].high = r["high"]
                   /\ out.result[1].medium = r["medium"]
                   /\ out.result[1].normal = r["normal"]

\* C18: for a dataset whose only severity column is "severity" the manifest
\* handler returns, without an error, the counts the certificate and the network
\* handler return.
C18_ManifestLowercaseSeverity ==
    (/\ out.op = "handle_score_manifest_analysis"
     /\ "severity" \in columns /\ "SEVERITY" \notin columns)
    => /\ out.status = "ok"
       /\ Returned(out.result) = handle_score_certificate_analysis(columns, values)
       /\ Returned(out.result) = handle_score_network_security(columns, values)

\* the count mapping a summary row was written from
RowMapping ==
    CASE out.op = "save_certificate_summary_csv" ->
            handle_score_certificate_analysis(columns, values).result
      [] out.op = "save_network_summary_csv" ->
            handle_score_network_security(columns, values).result
      [] out.op = "save_manifest_summary_csv" ->
            handle_score_manifest_analysis(columns, values).result

\* C20: in every summary row, total is the sum of all counts of the
\* manufacturer's mapping and score is the weighted score of that mapping.
C20_RowTotalAndScore ==
    (/\ out.op \in {"save_certificate_summary_csv", "save_network_summary_csv",
                    "save_manifest_summary_csv"}
     /\ out.status = "ok")
    => /\ out.result.total = SumValues(DOMAIN RowMapping, RowMapping)
       /\ out.result.score = weighted_score(RowMapping, RISK_WEIGHTS)

-----------------------------------------------------------------------------
(* utils/pni_scoring.py: extract_privacy_data as one function of the        *)
(* document.                                                                 *)

RECURSIVE FoldBlocks(_, _)
FoldBlocks(d, bs) ==
    IF bs = <<>> THEN d ELSE FoldBlocks(process_block(d, Head(bs)), Tail(bs))

RECURSIVE FoldSections(_, _)
FoldSections(d, ss) ==
    IF ss = <<>> THEN d ELSE FoldSections(process_section(d, Head(ss)), Tail(ss))

RECURSIVE FoldHeadings(_, _)
FoldHeadings(d, hs) ==
    IF hs = <<>> THEN d ELSE FoldHeadings(process_heading(d, Head(hs)), Tail(hs))

extract_privacy_data(bs, ss, fr, hs) ==
    LET t  == soup_text_lower(bs, ss, fr, hs)
        d1 == FoldBlocks(InitialData, bs)
        d2 == collects_biometrics(d1, t)
        d3 == FoldSections(d2, ding_sections(ss))
        d4 == direct_patterns(d3, t)
        d5 == FoldHeadings(d4, find_all_h3(ss, hs))
    IN  privacy_warning(d5, fr, t)

-----------------------------------------------------------------------------
(* SpecScrape: scrape_privacy_scores over at most MaxApps manufacturers,    *)
(* with every outcome of each request.                                      *)

MANUFACTURER_DIRS ==
    <<"Acura", "Audi", "BMW", "Buick", "Chevrolet", "Ford", "Honda", "Jeep",
      "Kia", "Mercedes", "Nissan", "Subaru", "Tesla", "Toyota">>

\* the keys of MANUFACTURER_PNI_URLS
MANUFACTURER_PNI_URLS == Range(MANUFACTURER_DIRS)

\* the names of MANUFACTURER_DIRS at the positions in S, in the order of the tuple
RECURSIVE DirsAt(_, _)
DirsAt(S, i) ==
    IF i > Len(MANUFACTURER_DIRS) THEN <<>>
    ELSE (IF i \in S THEN <<MANUFACTURER_DIRS[i]>> ELSE <<>>) \o DirsAt(S, i + 1)

\* [name for name in MANUFACTURER_DIRS if (base_path / name).exists()]
available_apps(existing) == DirsAt(existing, 1)

Page(bs, ss, fr, hs) == [doc |-> bs, sections |-> ss, free |-> fr, headings |-> hs]

Pages ==
    {Page(<<>>, <<Section(TRUE, TRUE, H_HowUse, B_Sell)>>, NoFree, <<>>),
     Page(<<Block(L_Camera, TRUE, Explanation(T_No, T_Yes), TRUE)>>, <<>>, NoFree,
          <<Heading(HT_Track, TRUE, TRUE, RT_Bad, HB_Significant)>>)}

\* what requests.get and raise_for_status do: raise, or give a response whose
\* text is empty or a page
Responses ==
    {[kind |-> "raises"], [kind |-> "text", empty |-> TRUE]}
    \cup {[kind |-> "text", empty |-> FALSE, page |-> p] : p \in Pages}

HtmlNone == [kind |-> "None"]

\* try: ... return resp.text; except Exception: return None
fetch_pni_page(resp) == IF resp.kind = "raises" THEN HtmlNone ELSE resp

\* `not html`
NotHtml(h) == IF h.kind = "None" THEN TRUE ELSE h.empty

\* {"data": data, "score": score}
result_entry(h) ==
    LET d == extract_privacy_data(h.page.doc, h.page.sections, h.page.free, h.page.headings)
    IN  [data |-> d, score |-> calculate_privacy_score(d)]

\* a store that starts the dict afresh
store_result_only(res, m, e) == (m :> e)

\* results[manufacturer] = {...}
store_result(res, m, e) == (m :> e) @@ res

\* a loop that stays on a manufacturer whose fetch gave nothing
next_manufacturer_retry(i, h) == IF NotHtml(h) THEN i - 1 ELSE i

\* for manufacturer in apps: the position after the pass over position i
next_manufacturer(i, h) == i

\* the URL table as configured, or with one entry taken out
UrlTables ==
    {MANUFACTURER_PNI_URLS}
    \cup {MANUFACTURER_PNI_URLS \ {MANUFACTURER_DIRS[i]} : i \in 1..MaxApps}

InitScrape ==
    /\ apps \in {available_apps(S) : S \in SUBSET (1..MaxApps)}
    /\ pni_urls \in UrlTables
    /\ results = <<>>
    /\ ai = 0
    /\ spc = "loop"
    /\ html = HtmlNone
    /\ requests = <<>>
    /\ ClassifyIdle /\ TallyIdle /\ WeightedIdle /\ PrivacyIdle /\ ExtractIdle
    /\ SaveIdle /\ MainIdle

scrapeRest == <<classifyVars, tallyVars, weightedVars, privacyVars, extractVars, saveVars, mainVars>>

\* the next manufacturer has no URL
ScrapeSkipNoUrl ==
    /\ spc = "loop"
    /\ ai < Len(apps)
    /\ apps[ai + 1] \notin pni_urls
    /\ ai' = next_manufacturer(ai + 1, HtmlNone)
    /\ UNCHANGED <<apps, pni_urls, results, spc, html, requests, scrapeRest>>

\* the page of the next manufacturer is requested
ScrapeFetch ==
    /\ spc = "loop"
    /\ ai < Len(apps)
    /\ apps[ai + 1] \in pni_urls
    /\ \E resp \in Responses :
          /\ html' = fetch_pni_page(resp)
          /\ requests' = Append(requests, [manufacturer |-> apps[ai + 1], response |-> resp])
    /\ spc' = "fetched"
    /\ UNCHANGED <<apps, pni_urls, results, ai, scrapeRest>>

\* nothing came back: the manufacturer is skipped
ScrapeSkipFailed ==
    /\ spc = "fetched"
    /\ NotHtml(html)
    /\ ai' = next_manufacturer(ai + 1, html)
    /\ spc' = "loop"
    /\ UNCHANGED <<apps, pni_urls, results, html, requests, scrapeRest>>

\* the page is extracted, scored and stored
ScrapeStore ==
    /\ spc = "fetched"
    /\ ~NotHtml(html)
    /\ results' = store_result(results, apps[ai + 1], result_entry(html))
    /\ ai' = next_manufacturer(ai + 1, html)
    /\ spc' = "loop"
    /\ UNCHANGED <<apps, pni_urls, html, requests, scrapeRest>>

\* the list is exhausted
ScrapeReturn ==
    /\ spc = "loop"
    /\ ai = Len(apps)
    /\ spc' = "done"
    /\ UNCHANGED <<apps, pni_urls, results, ai, html, requests, scrapeRest>>

NextScrape ==
    \/ ScrapeSkipNoUrl \/ ScrapeFetch \/ ScrapeSkipFailed \/ ScrapeStore \/ ScrapeReturn

SpecScrape == InitScrape /\ [][NextScrape]_vars

\* the response to the request for manufacturer m
ResponseOf(m) ==
    requests[CHOOSE j \in 1..Len(requests) : requests[j].manufacturer = m].response

Requested == {requests[j].manufacturer : j \in 1..Len(requests)}

\* C13 as stated: the result holds an entry for exactly the available
\* manufacturers with a configured URL whose fetch succeeded.
C13_EntryForEverySuccessfulFetch ==
    spc = "done" =>
        DOMAIN results =
            {m \in Range(apps) :
                m \in pni_urls /\ m \in Requested /\ ResponseOf(m).kind = "text"}

\* the manufacturers whose request gave a page that is not empty
GotPage ==
    {m \in Requested :
        IF ResponseOf(m).kind = "text" THEN ~ResponseOf(m).empty ELSE FALSE}

\* C13, amended: the result holds an entry (the profile extracted from the page
\* and its score) for exactly the available manufacturers with a configured
\* URL whose fetch returned a non-empty page; a failed fetch, an empty body or a
\* missing URL removes only that manufacturer.
C13_EntryForEveryFetchedPage ==
    spc = "done" =>
        /\ Requested = Range(apps) \cap pni_urls
        /\ DOMAIN results = GotPage
        /\ \A m \in DOMAIN results :
              LET pg == ResponseOf(m).page
              IN  /\ results[m].data = extract_privacy_data(pg.doc, pg.sections, pg.free,
                                                             pg.headings)
                  /\ results[m].score = calculate_privacy_score(results[m].data)

\* the fetch for the second of three manufacturers fails
C13_Witness ==
    /\ spc = "done"
    /\ Len(apps) = 3
    /\ Len(requests) = 3
    /\ requests[2].response.kind = "raises"
    /\ DOMAIN results = {apps[1], apps[3]}

\* the first k available manufacturers that have a URL, in list order
WithUrl(k) == SelectSeq(SubSeq(apps, 1, k), LAMBDA m : m \in pni_urls)

\* C19: no page is requested twice, requests go out in list order, a request
\* goes out only when every earlier manufacturer is settled (its entry stored,
\* or skipped), and a stored entry is never changed afterwards.
C19_SequentialFetches ==
    /\ [](/\ \A i, j \in 1..Len(requests) :
                requests[i].manufacturer = requests[j].manufacturer => i = j
          /\ [j \in 1..Len(requests) |-> requests[j].manufacturer]
                = WithUrl(IF spc = "fetched" THEN ai + 1 ELSE ai))
    /\ [][/\ Len(requests') > Len(requests) =>
                /\ spc = "loop"
                /\ DOMAIN results = GotPage
          /\ \A m \in DOMAIN results :
                m \in DOMAIN results' /\ results'[m] = results[m]]_vars

\* a failed fetch between two stored pages
C19_Witness ==
    /\ spc = "done"
    /\ Len(requests) = 3
    /\ requests[1].response.kind = "text" /\ requests[3].response.kind = "text"
    /\ requests[2].response.kind = "raises"
    /\ Cardinality(DOMAIN results) = 2

-----------------------------------------------------------------------------
(* SpecSave: the functions that write a chart or a summary, called with a  *)
(* mapping or frame of nentries manufacturers and an output path whose     *)
(* directory may be missing and whose file is absent or left by an earlier *)
(* run.                                                                    *)

Ended(status, p) == [status |-> status, path |-> p]

\* output_path.parent.mkdir(parents=True, exist_ok=True)
Mkdir(p) == [p EXCEPT !.parent = TRUE]

\* if output_path.exists(): output_path.unlink()
Unlink(p) == [p EXCEPT !.file = "absent"]

\* fig.savefig, DataFrame.to_csv, open(output_path, 'w')
Write(p) == [p EXCEPT !.file = "written"]

save_certificate_bar_chart(n, p) ==
    IF n = 0 THEN Ended("ValueError", p) ELSE Ended("ok", Write(Unlink(Mkdir(p))))

save_network_bar_chart(n, p) ==
    IF n = 0 THEN Ended("ValueError", p) ELSE Ended("ok", Write(Unlink(Mkdir(p))))

save_manifest_bar_chart(n, p) ==
    IF n = 0 THEN Ended("ValueError", p) ELSE Ended("ok", Write(Unlink(Mkdir(p))))

save_tracker_bar_chart(n, p) ==
    IF n = 0 THEN Ended("ValueError", p) ELSE Ended("ok", Write(Unlink(Mkdir(p))))

save_privacy_bar_chart(n, p) ==
    IF n = 0 THEN Ended("ValueError", p) ELSE Ended("ok", Write(Unlink(Mkdir(p))))

save_certificate_summary_csv(n, p) ==
    IF n = 0 THEN Ended("ValueError", p) ELSE Ended("ok", Write(Mkdir(p)))

save_network_summary_csv(n, p) ==
    IF n = 0 THEN Ended("ValueError", p) ELSE Ended("ok", Write(Mkdir(p)))

save_manifest_summary_csv(n, p) ==
    IF n = 0 THEN Ended("ValueError", p) ELSE Ended("ok", Write(Mkdir(p)))

save_privacy_summary_csv(n, p) ==
    IF n = 0 THEN Ended("ValueError", p) ELSE Ended("ok", Write(Mkdir(p)))

\* no test of scores: the file is opened for writing whatever they hold
save_privacy_json(n, p) == Ended("ok", Write(Mkdir(p)))

\* application_permissions.py
prepare_output_path(p) == Unlink(Mkdir(p))

\* summaries_to_frame of no summary is a frame without columns, and
\* frame["manufacturer"] raises KeyError
plot_stacked_bar(n, p) ==
    LET p1 == prepare_output_path(p)
    IN  IF n = 0 THEN Ended("KeyError", p1) ELSE Ended("ok", Write(p1))

\* frame.sort_values("score") raises KeyError on a frame without columns
plot_score_bars(n, p) ==
    IF n = 0 THEN Ended("KeyError", p) ELSE Ended("ok", Write(prepare_output_path(p)))

save_summary_csv(n, p) == Ended("ok", Write(prepare_output_path(p)))

\* a file exists only in a directory that exists
OutputPaths ==
    {[parent |-> FALSE, file |-> "absent"],
     [parent |-> TRUE, file |-> "absent"],
     [parent |-> TRUE, file |-> "old"]}

InitSave ==
    /\ nentries \in 0..MaxEntries
    /\ output_path \in OutputPaths
    /\ saved = [op |-> "pending"]
    /\ ClassifyIdle /\ TallyIdle /\ WeightedIdle /\ PrivacyIdle /\ ExtractIdle
    /\ ScrapeIdle /\ MainIdle

saveRest == <<nentries, classifyVars, tallyVars, weightedVars, privacyVars,
              extractVars, scrapeVars, mainVars>>

SaveCertificateBarChart ==
    /\ saved.op = "pending"
    /\ saved' = [op |-> "save_certificate_bar_chart", status |-> save_certificate_bar_chart(nentries, output_path).status]
    /\ output_path' = save_certificate_bar_chart(nentries, output_path).path
    /\ UNCHANGED saveRest

SaveNetworkBarChart ==
    /\ saved.op = "pending"
    /\ saved' = [op |-> "save_network_bar_chart", status |-> save_network_bar_chart(nentries, output_path).status]
    /\ output_path' = save_network_bar_chart(nentries, output_path).path
    /\ UNCHANGED saveRest

SaveManifestBarChart ==
    /\ saved.op = "pending"
    /\ saved' = [op |-> "save_manifest_bar_chart", status |-> save_manifest_bar_chart(nentries, output_path).status]
    /\ output_path' = save_manifest_bar_chart(nentries, output_path).path
    /\ UNCHANGED saveRest

SaveTrackerBarChart ==
    /\ saved.op = "pending"
    /\ saved' = [op |-> "save_tracker_bar_chart", status |-> save_tracker_bar_chart(nentries, output_path).status]
    /\ output_path' = save_tracker_bar_chart(nentries, output_path).path
    /\ UNCHANGED saveRest

SavePrivacyBarChart ==
    /\ saved.op = "pending"
    /\ saved' = [op |-> "save_privacy_bar_chart", status |-> save_privacy_bar_chart(nentries, output_path).status]
    /\ output_path' = save_privacy_bar_chart(nentries, output_path).path
    /\ UNCHANGED saveRest

SaveCertificateSummaryCsv ==
    /\ saved.op = "pending"
    /\ saved' = [op |-> "save_certificate_summary_csv", status |-> save_certificate_summary_csv(nentries, output_path).status]
    /\ output_path' = save_certificate_summary_csv(nentries, output_path).path
    /\ UNCHANGED saveRest

SaveNetworkSummaryCsv ==
    /\ saved.op = "pending"
    /\ saved' = [op |-> "save_network_summary_csv", status |-> save_network_summary_csv(nentries, output_path).status]
    /\ output_path' = save_network_summary_csv(nentries, output_path).path
    /\ UNCHANGED saveRest

SaveManifestSummaryCsv ==
    /\ saved.op = "pending"
    /\ saved' = [op |-> "save_manifest_summary_csv", status |-> save_manifest_summary_csv(nentries, output_path).status]
    /\ output_path' = save_manifest_summary_csv(nentries, output_path).path
    /\ UNCHANGED saveRest

SavePrivacySummaryCsv ==
    /\ saved.op = "pending"
    /\ saved' = [op |-> "save_privacy_summary_csv", status |-> save_privacy_summary_csv(nentries, output_path).status]
    /\ output_path' = save_privacy_summary_csv(nentries, output_path).path
    /\ UNCHANGED saveRest

SavePrivacyJson ==
    /\ saved.op = "pending"
    /\ saved' = [op |-> "save_privacy_json", status |-> save_privacy_json(nentries, output_path).status]
    /\ output_path' = save_privacy_json(nentries, output_path).path
    /\ UNCHANGED saveRest

PlotStackedBar ==
    /\ saved.op = "pending"
    /\ saved' = [op |-> "plot_stacked_bar", status |-> plot_stacked_bar(nentries, output_path).status]
    /\ output_path' = plot_stacked_bar(nentries, output_path).path
    /\ UNCHANGED saveRest

PlotScoreBars ==
    /\ saved.op = "pending"
    /\ saved' = [op |-> "plot_score_bars", status |-> plot_score_bars(nentries, output_path).status]
    /\ output_path' = plot_score_bars(nentries, output_path).path
    /\ UNCHANGED saveRest

SaveSummaryCsv ==
    /\ saved.op = "pending"
    /\ saved' = [op |-> "save_summary_csv", status |-> save_summary_csv(nentries, output_path).status]
    /\ output_path' = save_summary_csv(nentries, output_path).path
    /\ UNCHANGED saveRest

NextSave ==
    \/ SaveCertificateBarChart
    \/ SaveNetworkBarChart
    \/ SaveManifestBarChart
    \/ SaveTrackerBarChart
    \/ SavePrivacyBarChart
    \/ SaveCertificateSummaryCsv
    \/ SaveNetworkSummaryCsv
    \/ SaveManifestSummaryCsv
    \/ SavePrivacySummaryCsv
    \/ SavePrivacyJson
    \/ PlotStackedBar
    \/ PlotScoreBars
    \/ SaveSummaryCsv

SpecSave == InitSave /\ [][NextSave]_vars

\* C14: called with zero manufacturers, every one of these functions raises an
\* error and leaves the file at its output path as it was: not created, not
\* overwritten, not deleted.
C14_EmptyInputRejected ==
    [][(saved.op = "pending" /\ nentries = 0) =>
          (saved'.status # "ok" /\ output_path'.file = output_path.file)]_vars

-----------------------------------------------------------------------------
(* SpecMain: run_subscripts over SUBSCRIPTS, with generate_permissions_     *)
(* reports step by step on at most MaxSummaries manufacturer summaries.    *)

\* the names of SUBSCRIPTS, in its order
SUBSCRIPTS ==
    <<"trackers", "application_permissions", "certificate_analysis",
      "network_analysis", "pni_scoring", "code_analysis", "manifest_analysis">>

\* the keys of outputs, in the order the dict literal evaluates them
OutputKeys == <<"summary_csv", "stacked_bar", "score_bar", "risk_pie">>

\* the artifacts: the four of the permissions generator, one for every other
Artifacts == Range(OutputKeys) \cup (Range(SUBSCRIPTS) \ {"application_permissions"})

RECURSIVE SumOf(_, _)
SumOf(rows, k) == IF rows = <<>> THEN 0 ELSE Head(rows)[k] + SumOf(Tail(rows), k)

\* the exception of a runner is caught and the loop goes on
propagate_caught(i) == [mpc |-> "loop", mi |-> i + 1]

\* runner(base_path=base_path) raises: nothing catches it, the loop is left
propagate(i) == [mpc |-> "raised", mi |-> i]

\* the totals of the three columns; no file is touched when they are all 0
plot_risk_pie(frame, p) ==
    IF SumOf(frame, "high") + SumOf(frame, "medium") + SumOf(frame, "normal") = 0
    THEN Ended("ValueError", p)
    ELSE Ended("ok", Write(prepare_output_path(p)))

\* a summary of one manufacturer: the three counts
SummaryRows == [high : 0..1, medium : 0..1, normal : 0..1]

NoFile == [parent |-> FALSE, file |-> "absent"]

InitMain ==
    /\ summaries \in SeqsUpTo(SummaryRows, MaxSummaries)
    /\ disk = [a \in Artifacts |-> NoFile]
    /\ calls = <<>>
    /\ mi = 0
    /\ mpc = "loop"
    /\ reports = [op |-> "pending"]
    /\ ClassifyIdle /\ TallyIdle /\ WeightedIdle /\ PrivacyIdle /\ ExtractIdle
    /\ ScrapeIdle /\ SaveIdle

mainRest == <<classifyVars, tallyVars, weightedVars, privacyVars, extractVars,
              scrapeVars, saveVars>>

Call(name, outcome) == [name |-> name, outcome |-> outcome]

\* the loop calls a runner other than generate_permissions_reports: it writes
\* its artifact or not, and returns or raises
RunGenerator ==
    /\ mpc = "loop"
    /\ mi < Len(SUBSCRIPTS)
    /\ SUBSCRIPTS[mi + 1] # "application_permissions"
    /\ \E wrote \in BOOLEAN, outcome \in {"returns", "raises"} :
          /\ disk' = IF wrote
                     THEN [disk EXCEPT ![SUBSCRIPTS[mi + 1]] = Write(prepare_output_path(@))]
                     ELSE disk
          /\ calls' = Append(calls, Call(SUBSCRIPTS[mi + 1], outcome))
          /\ mpc' = IF outcome = "raises" THEN propagate(mi).mpc ELSE "loop"
          /\ mi' = IF outcome = "raises" THEN propagate(mi).mi ELSE mi + 1
    /\ UNCHANGED <<summaries, reports, mainRest>>

\* the loop calls generate_permissions_reports: no summaries, {} is returned
GeneratePermissionsReports ==
    /\ mpc = "loop"
    /\ mi < Len(SUBSCRIPTS)
    /\ SUBSCRIPTS[mi + 1] = "application_permissions"
    /\ IF summaries = <<>>
       THEN /\ reports' = [op |-> "returned", outputs |-> {}]
            /\ calls' = Append(calls, Call(SUBSCRIPTS[mi + 1], "returns"))
            /\ mi' = mi + 1
            /\ mpc' = "loop"
       ELSE /\ mpc' = "summary_csv"
            /\ UNCHANGED <<reports, calls, mi>>
    /\ UNCHANGED <<summaries, disk, mainRest>>

\* outputs["summary_csv"]
ReportsSummaryCsv ==
    /\ mpc = "summary_csv"
    /\ disk' = [disk EXCEPT !["summary_csv"] = save_summary_csv(Len(summaries), @).path]
    /\ mpc' = "stacked_bar"
    /\ UNCHANGED <<summaries, calls, mi, reports, mainRest>>

\* outputs["stacked_bar"]
ReportsStackedBar ==
    /\ mpc = "stacked_bar"
    /\ disk' = [disk EXCEPT !["stacked_bar"] = plot_stacked_bar(Len(summaries), @).path]
    /\ mpc' = "score_bar"
    /\ UNCHANGED <<summaries, calls, mi, reports, mainRest>>

\* outputs["score_bar"]
ReportsScoreBars ==
    /\ mpc = "score_bar"
    /\ disk' = [disk EXCEPT !["score_bar"] = plot_score_bars(Len(summaries), @).path]
    /\ mpc' = "risk_pie"
    /\ UNCHANGED <<summaries, calls, mi, reports, mainRest>>

\* outputs["risk_pie"], and outputs is returned, or the ValueError leaves the
\* generator and the loop
ReportsRiskPie ==
    /\ mpc = "risk_pie"
    /\ LET e == plot_risk_pie(summaries, disk["risk_pie"])
       IN  /\ disk' = [disk EXCEPT !["risk_pie"] = e.path]
           /\ IF e.status = "ok"
              THEN /\ reports' = [op |-> "returned", outputs |-> Range(OutputKeys)]
                   /\ calls' = Append(calls, Call(SUBSCRIPTS[mi + 1], "returns"))
                   /\ mi' = mi + 1
                   /\ mpc' = "loop"
              ELSE /\ reports' = [op |-> "raised", outputs |-> {}]
                   /\ calls' = Append(calls, Call(SUBSCRIPTS[mi + 1], "raises"))
                   /\ mi' = propagate(mi).mi
                   /\ mpc' = propagate(mi).mpc
    /\ UNCHANGED <<summaries, mainRest>>

\* the loop is over
RunSubscriptsReturn ==
    /\ mpc = "loop"
    /\ mi = Len(SUBSCRIPTS)
    /\ mpc' = "returned"
    /\ UNCHANGED <<summaries, disk, calls, mi, reports, mainRest>>

NextMain ==
    \/ RunGenerator
    \/ GeneratePermissionsReports
    \/ ReportsSummaryCsv
    \/ ReportsStackedBar
    \/ ReportsScoreBars
    \/ ReportsRiskPie
    \/ RunSubscriptsReturn

SpecMain == InitMain /\ [][NextMain]_vars

\* the artifacts of the permissions generator that are written
WrittenReports == {k \in Range(OutputKeys) : disk[k].file = "written"}

\* C24: a call of generate_permissions_reports on a non-empty list of
\* summaries ends with all four artifacts written and their paths returned, or
\* with none of them written
C24_AllOrNothing ==
    (summaries # <<>> /\ reports.op \in {"returned", "raised"}) =>
        \/ reports.op = "returned" /\ WrittenReports = Range(OutputKeys)
                                   /\ reports.outputs = Range(OutputKeys)
        \/ WrittenReports = {}

\* C26: the runners that ended are the first entries of SUBSCRIPTS, in its
\* order and each once; every runner that ended before another was called
\* returned, so nothing runs after a runner that raised; and a written
\* artifact stays written
C26_FixedOrderAbortOnRaise ==
    /\ [](mpc # "idle" =>
            /\ Len(calls) <= Len(SUBSCRIPTS)
            /\ \A i \in 1..Len(calls) : calls[i].name = SUBSCRIPTS[i]
            /\ \A i \in 1..(Len(calls) - 1) : calls[i].outcome = "returns"
            /\ (mpc = "raised") <=>
                  (calls # <<>> /\ calls[Len(calls)].outcome = "raises"))
    /\ [][mpc = "raised" => calls' = calls]_vars
    /\ [][mpc # "idle" =>
            \A a \in Artifacts : disk[a].file = "written" => disk'[a].file = "written"]_vars

C26_Witness ==
    /\ mpc = "raised"
    /\ Len(calls) = 2
    /\ calls[2] = Call("application_permissions", "raises")
    /\ disk["trackers"].file = "written"
    /\ disk["summary_csv"].file = "written"
    /\ disk["certificate_analysis"].file = "absent"

====
